---- MODULE Spec2Model ----
(***************************************************************************)
(* Verification model of the Kiro gateway's credential subsystems:         *)
(*   - the account pool (AccountManager over PostgreSQL, LocalAccount-     *)
(*     Manager over a JSON file): rotation list, cursor, usage accounting; *)
(*   - token refresh of pooled accounts (dispatch, write-back, sweep);     *)
(*   - the OAuth acquirer (PKCE callback server, device-code poller).      *)
(* Every coroutine is cut at its await points: one action is the code      *)
(* that runs between two suspensions of the single event loop.             *)
(* load_accounts runs once, at application start (main.py lifespan), so    *)
(* the initial state of the pool is the state that load leaves.            *)
(***************************************************************************)
EXTENDS Integers, Sequences, FiniteSets, TLC

VARIABLES
    \* ---- account pool (accounts.py, local_storage.py)
    backend,        \* "db" (AccountManager) or "file" (LocalAccountManager)
    stored,         \* ids of the records in the store
    active,         \* ids of the stored records with is_active
    request_count,  \* store column request_count, per id
    next_id,        \* next id the store assigns
    account_ids,    \* _account_ids: the rotation list
    current_index,  \* _current_index: the cursor (0-based)
    auth_managers,  \* keys of _auth_managers
    usage_tasks,    \* spawned _update_account_usage tasks not yet run, per id
    pending,        \* db backend: operations committed, in-memory part not yet run
    caller_ret,     \* per caller of get_next_account: "idle" or what it got
    batch_pre,      \* cursor when the current batch of callers began
    batch_clean,    \* no other pool operation touched the rotation since then
    calls,          \* get_next_account calls since the rotation last changed
    ncalls,         \* get_next_account calls made so far
    nops,           \* add / remove / update operations started so far
    \* ---- record contents and token refresh
    acct,           \* per id: the record's fields in the store
    cache,          \* per id: the fields of its KiroAuthManager in _auth_managers
    now,            \* the clock, in seconds
    rt,             \* per task: its refresh_account_token call
    sw,             \* the refresh_all_tokens call
    ntok,           \* tokens the upstream has issued to refreshes so far
    hist,           \* per id: what each successful refresh stored, in order
    issued,         \* per id: the (access token, expiry) pairs that belong together
    nrefresh,       \* manual refresh calls made so far
    nsweeps,        \* refresh_all_tokens calls made so far
    nticks,         \* clock advances so far
    \* ---- OAuth acquirer (oauth.py)
    wait_closed_waits, \* the build's Server.wait_closed waits for open connections
    auth_timeout,   \* KiroOAuthManager.auth_timeout, seconds
    poll_interval,  \* KiroOAuthManager.poll_interval, seconds
    om,             \* KiroOAuthManager: _active_server, _active_polling_task, _current_auth
    flows,          \* per flow: its OAuthCallbackServer or its polling task
    hs,             \* per web handler: where its call on the manager stands
    conns,          \* per connection to a callback server: its _handle_connection
    saved,          \* the _save_credentials calls made, in order
    cancelled,      \* flows that a cancel_auth which has returned had found active
    nflows,         \* flows created so far
    nhops,          \* calls on the manager made so far
    \* ---- per-request bearer authentication (per_request_auth.py)
    auth_manager_cache, \* _auth_manager_cache: per key, the entry or none
    last_cache_cleanup, \* _last_cache_cleanup
    br,             \* per request: where its authentication stands
    nbreq,          \* requests authenticated so far
    nbticks,        \* clock advances of this part so far
    \* ---- streaming responses (routes.py chat_completions)
    streams,        \* per streaming request: its upstream connection and what was sent
    \* ---- AwsEventStreamParser (parsers.py)
    last_content,   \* parser.last_content, <<>> for None
    current_tool_call, \* parser.current_tool_call, <<>> for None
    tool_calls,     \* parser.tool_calls
    fed,            \* the events processed so far, in order
    emitted,        \* the events _process_event returned, in order
    returned,       \* what get_tool_calls returned, <<>> before the call
    \* ---- find_matching_brace (parsers.py)
    text,           \* the argument text
    start_pos,      \* the argument start_pos
    brace_at,       \* the value returned, NotCalled before the call
    \* ---- LocalAccountManager's memory and its JSON file (local_storage.py)
    accounts,       \* _accounts: request_count per id held in memory
    mem_next_id,    \* _next_id
    storage_file,   \* the file: Missing, Truncated or what the last write left
    nfileops,       \* operations of this part made so far
    mem_account_ids, \* _account_ids of that manager
    mem_current_index, \* _current_index of that manager
    mem_ret,        \* what its last get_next_account call returned or raised
    \* ---- KiroAuthManager.get_access_token (auth.py)
    am,             \* the manager: _access_token, whether it is expiring, _lock
    gat,            \* per caller of get_access_token: where its call stands
    refresh_call_count, \* _refresh_token_request calls made so far
    \* ---- IdCTokenRefresher._calculate_next_refresh_delay (token_refresh.py)
    seconds_until_expiry, \* what _get_seconds_until_expiry returns
    refresh_interval, \* IdCTokenRefresher._refresh_interval
    next_delay,     \* the delay returned, NotCalled before the call
    \* ---- the pool's background refresh task (_auto_refresh_loop)
    refresh_task,   \* _refresh_task: 0 for None, else the task
    loops,          \* per task created: where its _auto_refresh_loop stands
    nloopstarts,    \* start_auto_refresh calls that created a task
    \* ---- usage accounting of the pool (_update_account_usage)
    last_used_at,   \* store column last_used_at, per id, 0 for None
    returns,        \* per id: the get_next_account calls that returned it
    dropped,        \* per id: the usage updates that failed and were dropped
    \* ---- a LocalAccount written to the file and read back (local_storage.py)
    to_save,        \* the manager that is saved: its _next_id and one record
    read_back,      \* what _load_from_file made of the file, NotCalled before
    \* ---- start and stop of the refresh loops (token_refresh.py, accounts.py)
    requested,      \* per pool loop task: the refresh requests it has begun
    running,        \* IdCTokenRefresher._running
    refresher_task, \* IdCTokenRefresher._task: 0 for None, else the task
    refreshers,     \* per refresher task: where it is, cancel() was called, requests
    nrefresherstarts, \* refresher tasks created so far
    \* ---- AwsEventStreamParser.feed on the bytes of a stream (parsers.py)
    byte_stream,    \* the bytes of the response body
    byte_pos,       \* how many of them have been passed to feed
    buffer,         \* AwsEventStreamParser.buffer
    feed_parser,    \* the parser's last_content, current_tool_call, tool_calls
    feed_events     \* the events the feed calls have returned, in order

poolVars == <<backend, stored, active, request_count, next_id, account_ids,
              current_index, auth_managers, usage_tasks, pending, caller_ret,
              batch_pre, batch_clean, calls, ncalls, nops>>

recVars == <<acct, cache>>

refreshVars == <<now, rt, sw, ntok, hist, issued, nrefresh, nsweeps, nticks>>

cfgVars == <<wait_closed_waits, auth_timeout, poll_interval>>

oauthVars == <<cfgVars, om, flows, hs, conns, saved, cancelled, nflows, nhops>>

bearerVars == <<auth_manager_cache, last_cache_cleanup, br, nbreq, nbticks>>

\* The subsystems that neither the pool nor the OAuth acquirer touches.
streamVars == <<streams>>

parserVars == <<last_content, current_tool_call, tool_calls, fed, emitted, returned>>

braceVars == <<text, start_pos, brace_at>>

transcoderVars == <<streamVars, parserVars, braceVars>>

fileVars == <<accounts, mem_next_id, storage_file, nfileops, mem_account_ids,
              mem_current_index, mem_ret>>

lockVars == <<am, gat, refresh_call_count>>

delayVars == <<seconds_until_expiry, refresh_interval, next_delay>>

loopVars == <<refresh_task, loops, nloopstarts>>

usageVars == <<last_used_at, returns, dropped>>

tripVars == <<to_save, read_back>>

stopVars == <<requested, running, refresher_task, refreshers, nrefresherstarts>>

feedVars == <<byte_stream, byte_pos, buffer, feed_parser, feed_events>>

codecVars == <<tripVars, stopVars, feedVars>>

\* Everything but the loops and the refresher.
besideStopVars == <<poolVars, recVars, refreshVars, oauthVars, bearerVars, transcoderVars,
                    fileVars, lockVars, delayVars, usageVars, tripVars, feedVars>>

lifecycleVars == <<fileVars, lockVars, delayVars, loopVars, usageVars, codecVars>>

extVars == <<bearerVars, transcoderVars, lifecycleVars>>

vars == <<poolVars, recVars, refreshVars, oauthVars, extVars>>

\* ------------------------------------------------------------------ bounds
MaxCalls == 5
MaxCallers == 3
MaxOps == 1
MaxRefreshes == 2
MaxSweeps == 1
MaxTicks == 1
MaxFlows == 2
MaxHandlerOps == 3
MaxConns == 2
HashBuckets == 2
MaxBearerReqs == 2
MaxBearerTicks == 2
MaxStreams == 2
MaxChunks == 2
MaxEvents == 3
MaxLen == 4

\* What a get_next_account caller holds: nothing yet, a record, None, or the
\* IndexError the call raised.
Idle == [kind |-> "idle", id |-> 0]
None == [kind |-> "none", id |-> 0]
IndexError == [kind |-> "IndexError", id |-> 0]
Got(id) == [kind |-> "account", id |-> id]
InitialIds == {10, 11, 12}
AllIds == InitialIds \cup {13}
Callers == 1 .. MaxCallers

\* ------------------------------------------------------------ the records
\* expires_at of a record that has none (None in the code).
NoExpiry == -1

\* A record of the store.  Token values are numbered: 0 is an absent value,
\* 1 the value the record was created with, k + 1 the value the k-th
\* successful upstream response carries.  client_id and client_secret say
\* whether extra_data carries the credential.
Account(method, cid, csec, rtok, exp) ==
    [auth_method |-> method, client_id |-> cid, client_secret |-> csec,
     access_token |-> 1, refresh_token |-> rtok, expires_at |-> exp,
     profile_arn |-> 1]

\* What the web UI stores after a social sign-in: no expiry, no client data.
NewAccount == Account("social", FALSE, FALSE, 1, NoExpiry)

\* _create_auth_manager: the cached copy of a record's credentials.
CreateAuthManager(a) ==
    [access_token |-> a.access_token, refresh_token |-> a.refresh_token,
     expires_at |-> a.expires_at, profile_arn |-> a.profile_arn]

\* ----------------------------------------------------------- list helpers
\* Python list.remove(x): drops the first occurrence of x.
IndexOf(s, x) == CHOOSE i \in 1 .. Len(s) : s[i] = x /\ \A j \in 1 .. (i - 1) : s[j] # x

Contains(s, x) == \E i \in 1 .. Len(s) : s[i] = x

RemoveFirst(s, x) ==
    IF Contains(s, x)
    THEN LET i == IndexOf(s, x) IN SubSeq(s, 1, i - 1) \o SubSeq(s, i + 1, Len(s))
    ELSE s

\* The ids of a set in ascending order (the order a load lists them in).
RECURSIVE Ascending(_)
Ascending(S) ==
    IF S = {} THEN <<>>
    ELSE LET m == CHOOSE x \in S : \A y \in S : x <= y
         IN <<m>> \o Ascending(S \ {m})

\* "if self._current_index >= len(self._account_ids): self._current_index = 0"
ResetIndex(idx, ids) == IF idx >= Len(ids) THEN 0 ELSE idx

\* ------------------------------------------------------- get_next_account
NextIndexStuck(idx, n) == idx

NextIndex(idx, n) == (idx + 1) % n

\* The "for _ in range(attempts)" loop: <<what is returned, the cursor after>>.
\* A cursor beyond the list raises IndexError and leaves the cursor alone.
RECURSIVE NextScan(_, _, _, _)
NextScan(ids, idx, mgrs, attempts) ==
    IF attempts = 0 THEN <<None, idx>>
    ELSE IF idx >= Len(ids) THEN <<IndexError, idx>>
    ELSE LET account_id == ids[idx + 1]
             nidx == NextIndex(idx, Len(ids))
         IN IF account_id \in mgrs
            THEN <<Got(account_id), nidx>>
            ELSE NextScan(ids, nidx, mgrs, attempts - 1)

\* A call that hands out the record under the cursor and forgets to advance.
GetNextResultNoAdvance(ids, idx, mgrs) ==
    IF Len(ids) = 0 \/ idx >= Len(ids) THEN <<None, idx>> ELSE <<Got(ids[idx + 1]), idx>>

GetNextResult(ids, idx, mgrs) ==
    IF Len(ids) = 0 THEN <<None, idx>> ELSE NextScan(ids, idx, mgrs, Len(ids))

GetNextAccount(c) ==
    /\ caller_ret[c] = Idle
    /\ ncalls < MaxCalls
    /\ LET r == GetNextResult(account_ids, current_index, auth_managers)
       IN /\ caller_ret' = [caller_ret EXCEPT ![c] = r[1]]
          /\ current_index' = r[2]
          /\ calls' = Append(calls, [pre |-> current_index, ret |-> r[1], post |-> r[2]])
          /\ usage_tasks' = IF r[1].kind = "account"
                            THEN [usage_tasks EXCEPT ![r[1].id] = @ + 1]
                            ELSE usage_tasks
          /\ returns' = IF r[1].kind = "account"
                        THEN [returns EXCEPT ![r[1].id] = @ + 1]
                        ELSE returns
    /\ ncalls' = ncalls + 1
    /\ UNCHANGED <<backend, stored, active, request_count, next_id, account_ids,
                   auth_managers, pending, batch_pre, batch_clean, nops>>
    /\ UNCHANGED <<acct, cache, refreshVars, oauthVars, bearerVars, transcoderVars,
                   fileVars, lockVars, delayVars, loopVars, last_used_at, dropped,
                   codecVars>>

\* The callers of a batch have all been answered; the next batch begins.
CallersReturn ==
    /\ \E c \in Callers : caller_ret[c] # Idle
    /\ caller_ret' = [c \in Callers |-> Idle]
    /\ batch_pre' = current_index
    /\ batch_clean' = TRUE
    /\ UNCHANGED <<backend, stored, active, request_count, next_id, account_ids,
                   current_index, auth_managers, usage_tasks, pending, calls,
                   ncalls, nops>>
    /\ UNCHANGED <<acct, cache, refreshVars, oauthVars, extVars>>

\* The counters after a usage update of the record: <<request_count,
\* last_used_at>>.
UsageUpdateKeepsTime(count, used, t) == <<count + 1, used>>

UsageUpdate(count, used, t) == <<count + 1, t>>

\* _update_account_usage: the fire-and-forget task get_next_account spawned.
\* The db backend's UPDATE touches no row when the record is gone, and when
\* the session or the statement raises the exception is logged and dropped;
\* the file backend changes the record it holds in memory, if it is there.
UpdateAccountUsage(id, ok) ==
    /\ usage_tasks[id] > 0
    /\ ok \/ backend = "db"
    /\ usage_tasks' = [usage_tasks EXCEPT ![id] = @ - 1]
    /\ IF ~ok
       THEN /\ dropped' = [dropped EXCEPT ![id] = @ + 1]
            /\ UNCHANGED <<request_count, last_used_at>>
       ELSE /\ UNCHANGED dropped
            /\ IF id \in stored
               THEN LET u == UsageUpdate(request_count[id], last_used_at[id], now)
                    IN /\ request_count' = [request_count EXCEPT ![id] = u[1]]
                       /\ last_used_at' = [last_used_at EXCEPT ![id] = u[2]]
               ELSE UNCHANGED <<request_count, last_used_at>>
    /\ UNCHANGED <<backend, stored, active, next_id, account_ids, current_index,
                   auth_managers, pending, caller_ret, batch_pre, batch_clean,
                   calls, ncalls, nops>>
    /\ UNCHANGED <<acct, cache, refreshVars, oauthVars, bearerVars, transcoderVars,
                   fileVars, lockVars, delayVars, loopVars, returns, codecVars>>

\* ------------------------------------------- add / remove / update_account
\* The locked in-memory part of each operation.
MemAdd(id, account) ==
    /\ auth_managers' = auth_managers \cup {id}
    /\ account_ids' = Append(account_ids, id)
    /\ cache' = [cache EXCEPT ![id] = CreateAuthManager(account)]
    /\ UNCHANGED current_index

MemRemove(id) ==
    /\ auth_managers' = auth_managers \ {id}
    /\ UNCHANGED cache
    /\ account_ids' = RemoveFirst(account_ids, id)
    /\ current_index' = IF Contains(account_ids, id)
                        THEN ResetIndex(current_index, RemoveFirst(account_ids, id))
                        ELSE current_index

\* AccountManager.update_account, "if is_active is not None" block.
MemUpdateDb(id, is_active) ==
    /\ UNCHANGED <<auth_managers, cache>>
    /\ IF is_active
       THEN /\ account_ids' = IF ~Contains(account_ids, id) /\ id \in auth_managers
                              THEN Append(account_ids, id)
                              ELSE account_ids
            /\ UNCHANGED current_index
       ELSE /\ account_ids' = RemoveFirst(account_ids, id)
            /\ current_index' = IF Contains(account_ids, id)
                                THEN ResetIndex(current_index, RemoveFirst(account_ids, id))
                                ELSE current_index

\* LocalAccountManager.update_account, "if is_active is not None" block.
MemUpdateFile(id, is_active) ==
    IF is_active
    THEN /\ account_ids' = IF ~Contains(account_ids, id)
                           THEN Append(account_ids, id)
                           ELSE account_ids
         /\ auth_managers' = IF ~Contains(account_ids, id)
                             THEN auth_managers \cup {id}
                             ELSE auth_managers
         /\ cache' = IF ~Contains(account_ids, id)
                     THEN [cache EXCEPT ![id] = CreateAuthManager(acct[id])]
                     ELSE cache
         /\ UNCHANGED current_index
    ELSE /\ account_ids' = RemoveFirst(account_ids, id)
         /\ auth_managers' = auth_managers \ {id}
         /\ UNCHANGED cache
         /\ current_index' = ResetIndex(current_index, RemoveFirst(account_ids, id))

\* load_accounts: both lists are cleared and filled with the active records
\* read, in the order of their ids; the cursor becomes index.
MemLoad(rows, index) ==
    /\ auth_managers' = rows
    /\ account_ids' = Ascending(rows)
    /\ cache' = [i \in AllIds |-> IF i \in rows THEN CreateAuthManager(acct[i])
                                  ELSE cache[i]]
    /\ current_index' = index

\* Bookkeeping of a step that ran an in-memory part.
Touched ==
    /\ calls' = <<>>
    /\ batch_clean' = FALSE

\* LocalAccountManager.add_account: one locked block.
AddAccountFile ==
    /\ backend = "file"
    /\ nops < MaxOps
    /\ next_id \in AllIds
    /\ stored' = stored \cup {next_id}
    /\ active' = active \cup {next_id}
    /\ next_id' = next_id + 1
    /\ MemAdd(next_id, NewAccount)
    /\ Touched
    /\ nops' = nops + 1
    /\ UNCHANGED <<backend, request_count, usage_tasks, pending, caller_ret,
                   batch_pre, ncalls>>
    /\ acct' = [acct EXCEPT ![next_id] = NewAccount]
    /\ UNCHANGED <<refreshVars, oauthVars, extVars>>

\* AccountManager.add_account up to the end of the session block (commit).
AddAccountCommit ==
    /\ backend = "db"
    /\ nops < MaxOps
    /\ next_id \in AllIds
    /\ stored' = stored \cup {next_id}
    /\ active' = active \cup {next_id}
    /\ next_id' = next_id + 1
    /\ pending' = pending \cup {[op |-> "add", id |-> next_id, is_active |-> TRUE,
                                  rows |-> {}]}
    /\ nops' = nops + 1
    /\ UNCHANGED <<backend, request_count, account_ids, current_index,
                   auth_managers, usage_tasks, caller_ret, batch_pre, batch_clean,
                   calls, ncalls>>
    /\ acct' = [acct EXCEPT ![next_id] = NewAccount]
    /\ UNCHANGED <<cache, refreshVars, oauthVars, extVars>>

\* LocalAccountManager.remove_account: one locked block.
RemoveAccountFile(id) ==
    /\ backend = "file"
    /\ nops < MaxOps
    /\ id \in stored
    /\ stored' = stored \ {id}
    /\ active' = active \ {id}
    /\ MemRemove(id)
    /\ Touched
    /\ nops' = nops + 1
    /\ UNCHANGED <<backend, request_count, next_id, usage_tasks, pending,
                   caller_ret, batch_pre, ncalls>>
    /\ UNCHANGED <<acct, refreshVars, oauthVars, extVars>>

\* AccountManager.remove_account up to the commit of the delete.
RemoveAccountCommit(id) ==
    /\ backend = "db"
    /\ nops < MaxOps
    /\ id \in stored
    /\ stored' = stored \ {id}
    /\ active' = active \ {id}
    /\ pending' = pending \cup {[op |-> "remove", id |-> id, is_active |-> FALSE,
                                  rows |-> {}]}
    /\ nops' = nops + 1
    /\ UNCHANGED <<backend, request_count, next_id, account_ids, current_index,
                   auth_managers, usage_tasks, caller_ret, batch_pre, batch_clean,
                   calls, ncalls>>
    /\ UNCHANGED <<acct, cache, refreshVars, oauthVars, extVars>>

\* LocalAccountManager.update_account(is_active=...): one locked block.
UpdateAccountFile(id, is_active) ==
    /\ backend = "file"
    /\ nops < MaxOps
    /\ id \in stored
    /\ active' = IF is_active THEN active \cup {id} ELSE active \ {id}
    /\ MemUpdateFile(id, is_active)
    /\ Touched
    /\ nops' = nops + 1
    /\ UNCHANGED <<backend, stored, request_count, next_id, usage_tasks, pending,
                   caller_ret, batch_pre, ncalls>>
    /\ UNCHANGED <<acct, refreshVars, oauthVars, extVars>>

\* AccountManager.update_account(is_active=...) up to the commit of the UPDATE.
UpdateAccountCommit(id, is_active) ==
    /\ backend = "db"
    /\ nops < MaxOps
    /\ active' = IF id \in stored
                 THEN (IF is_active THEN active \cup {id} ELSE active \ {id})
                 ELSE active
    /\ pending' = pending \cup {[op |-> "update", id |-> id, is_active |-> is_active,
                                  rows |-> {}]}
    /\ nops' = nops + 1
    /\ UNCHANGED <<backend, stored, request_count, next_id, account_ids,
                   current_index, auth_managers, usage_tasks, caller_ret,
                   batch_pre, batch_clean, calls, ncalls>>
    /\ UNCHANGED <<acct, cache, refreshVars, oauthVars, extVars>>

\* LocalAccountManager.load_accounts: one locked block, which leaves
\* _current_index as it is.
LoadAccountsFile ==
    /\ backend = "file"
    /\ MemLoad(active, current_index)
    /\ Touched
    /\ UNCHANGED <<backend, stored, active, request_count, next_id, usage_tasks,
                   pending, caller_ret, batch_pre, ncalls, nops>>
    /\ UNCHANGED <<acct, refreshVars, oauthVars, extVars>>

\* AccountManager.load_accounts up to the end of its SELECT, one load at a
\* time.
LoadAccountsSelect ==
    /\ backend = "db"
    /\ \A p \in pending : p.op # "load"
    /\ pending' = pending \cup {[op |-> "load", id |-> 0, is_active |-> TRUE,
                                  rows |-> active]}
    /\ UNCHANGED <<backend, stored, active, request_count, next_id, account_ids,
                   current_index, auth_managers, usage_tasks, caller_ret,
                   batch_pre, batch_clean, calls, ncalls, nops>>
    /\ UNCHANGED <<acct, cache, refreshVars, oauthVars, extVars>>

\* db backend: the "async with self._lock" block that follows a commit or,
\* in load_accounts, the SELECT.
ApplyPending(p) ==
    /\ p \in pending
    /\ pending' = pending \ {p}
    /\ CASE p.op = "add" -> MemAdd(p.id, acct[p.id])
         [] p.op = "remove" -> MemRemove(p.id)
         [] p.op = "load" -> MemLoad(p.rows, 0)
         [] OTHER -> MemUpdateDb(p.id, p.is_active)
    /\ Touched
    /\ UNCHANGED <<backend, stored, active, request_count, next_id, usage_tasks,
                   caller_ret, batch_pre, ncalls, nops>>
    /\ UNCHANGED <<acct, refreshVars, oauthVars, extVars>>

\* ------------------------------------------------------------ token refresh
TOKEN_REFRESH_THRESHOLD == 600

Tasks == {"m1", "m2", "sweep"}
Manual == {"m1", "m2"}
TickSteps == {30, 300}
ExpiresInValues == {420, 3600}
Success == "Token refreshed successfully"

\* What the upstream may answer to a refresh request: a status (0: no answer,
\* the transport failed), and for a 200 whether the body carries accessToken,
\* refreshToken, profileArn, and its expiresIn (3600 also when it is absent).
Responses ==
    [status : {200}, access : {TRUE}, refresh : {FALSE}, profile : {FALSE},
     expires_in : ExpiresInValues]
    \cup [status : {200}, access : {TRUE}, refresh : {TRUE}, profile : {TRUE},
          expires_in : {3600}]
    \cup [status : {200}, access : {FALSE}, refresh : {FALSE}, profile : {FALSE},
          expires_in : {3600}]
    \cup [status : {0, 401, 500}, access : {FALSE}, refresh : {FALSE},
          profile : {FALSE}, expires_in : {3600}]

\* The answers two concurrent refreshes are run against: every 200, and of
\* the failures, which differ in the message only, the 401.
RefreshResponses == {resp \in Responses : resp.status \in {200, 401}}

\* A test that leaves out the record whose time left equals the threshold.
IsTokenExpiringSoonStrict(expires_at, t, threshold_seconds) ==
    IF expires_at = NoExpiry THEN TRUE ELSE (expires_at - t) < threshold_seconds

\* KiroAccount / LocalAccount.is_token_expiring_soon at clock t.
IsTokenExpiringSoon(expires_at, t, threshold_seconds) ==
    IF expires_at = NoExpiry THEN TRUE ELSE (expires_at - t) <= threshold_seconds

\* How a call proceeds up to its first suspension.
NoRequest(msg) == [kind |-> "return", endpoint |-> "", result |-> msg]
Request(endpoint) == [kind |-> "http", endpoint |-> endpoint, result |-> ""]
Select == [kind |-> "select", endpoint |-> "", result |-> ""]
Raise(exc) == [kind |-> "raise", endpoint |-> "", result |-> exc]

\* _refresh_idc_token and _refresh_social_token up to the POST.
RefreshIdcToken(a) ==
    IF a.refresh_token = 0 THEN NoRequest("No refresh token available")
    ELSE IF ~a.client_id \/ ~a.client_secret THEN NoRequest("Missing client credentials")
    ELSE Request("oidc")

RefreshSocialToken(a) ==
    IF a.refresh_token = 0 THEN NoRequest("No refresh token available")
    ELSE Request("kiro")

\* LocalAccountManager.refresh_account_token up to its first suspension.
RefreshAccountTokenFileEither(id) ==
    IF id \notin stored THEN NoRequest("Account not found")
    ELSE LET account == acct[id]
         IN IF account.client_id \/ account.client_secret
            THEN IF account.refresh_token = 0
                 THEN NoRequest("No refresh token available")
                 ELSE Request("oidc")
            ELSE IF account.auth_method = "social" THEN RefreshSocialToken(account)
            ELSE NoRequest("Missing client credentials. Please re-authenticate.")

RefreshAccountTokenFile(id) ==
    IF id \notin stored THEN NoRequest("Account not found")
    ELSE LET account == acct[id]
         IN IF account.client_id /\ account.client_secret THEN RefreshIdcToken(account)
            ELSE IF account.auth_method = "social" THEN RefreshSocialToken(account)
            ELSE NoRequest("Missing client credentials. Please re-authenticate.")

\* AccountManager.refresh_account_token after its SELECT: the row class
\* KiroAccount defines no client_id, so "account.client_id" raises.
RefreshAccountTokenDb(id) ==
    IF id \notin stored THEN NoRequest("Account not found")
    ELSE Raise("AttributeError")

\* refresh_account_token when called: the file backend runs on to the POST,
\* the db backend suspends in its SELECT.
RefreshAccountToken(id) ==
    IF backend = "db" THEN Select ELSE RefreshAccountTokenFile(id)

\* The state of one refresh_account_token call.
IdleCall ==
    [pc |-> "idle", id |-> 0, sent |-> <<>>, result |-> "", found |-> FALSE,
     seen |-> NewAccount]

NewCall(id, o) ==
    [pc |-> IF o.kind \in {"http", "select"} THEN o.kind ELSE "done",
     id |-> id,
     sent |-> IF o.kind = "http" THEN <<o.endpoint>> ELSE <<>>,
     result |-> o.result,
     found |-> id \in stored,
     seen |-> IF id \in stored THEN acct[id] ELSE NewAccount]

\* update_account_tokens: "account.access_token = ...; if refresh_token: ...".
UpdatedTokenOnly(c, access_token, refresh_token, expires_at, profile_arn) ==
    [c EXCEPT !.access_token = access_token]

UpdatedTokens(c, access_token, refresh_token, expires_at, profile_arn) ==
    [c EXCEPT !.access_token = access_token,
              !.refresh_token = IF refresh_token # 0 THEN refresh_token ELSE @,
              !.expires_at = IF expires_at # NoExpiry THEN expires_at ELSE @,
              !.profile_arn = IF profile_arn # 0 THEN profile_arn ELSE @]

\* expires_at a refresh computes from a response that arrives at clock t.
ExpiresAtDefault(t, expires_in) == t + 3600

ExpiresAt(t, expires_in) == t + expires_in

\* The state of the refresh_all_tokens call: the records still to visit, the
\* db backend's snapshot of expires_at, the counter, and what each visit of
\* the loop found and did.
IdleSweep ==
    [pc |-> "idle", force |-> FALSE, queue |-> <<>>, refreshed |-> 0,
     evals |-> <<>>, snap |-> [i \in AllIds |-> NoExpiry]]

\* The "for account in accounts" loop from the head of q until a call of
\* refresh_account_token suspends (call: its id) or the list ends (call: 0).
\* The db backend lists the rows its query found active and tests the values
\* it read then; the file backend tests the live objects.
RECURSIVE SweepScan(_, _, _, _)
SweepScan(q, ev, force, snap) ==
    IF q = <<>> THEN [queue |-> q, evals |-> ev, call |-> 0]
    ELSE LET id == Head(q)
             is_active == IF backend = "db" THEN TRUE ELSE id \in active
             expires_at == IF backend = "db" THEN snap[id] ELSE acct[id].expires_at
             due == is_active /\ (force \/ IsTokenExpiringSoon(expires_at, now,
                                                              TOKEN_REFRESH_THRESHOLD))
             o == RefreshAccountToken(id)
             e == [id |-> id, is_active |-> is_active, expires_at |-> expires_at,
                   at |-> now, called |-> due,
                   result |-> IF due THEN o.result ELSE ""]
         IN IF due /\ o.kind \in {"http", "select"}
            THEN [queue |-> Tail(q), evals |-> Append(ev, e), call |-> id]
            ELSE SweepScan(Tail(q), Append(ev, e), force, snap)

\* The sweep after a scan: suspended in a call, or returned.
SweepGoesOn(s, force, snap, refreshed) ==
    /\ sw' = [pc |-> IF s.call = 0 THEN "done" ELSE "running", force |-> force,
              queue |-> s.queue, refreshed |-> refreshed, evals |-> s.evals,
              snap |-> snap]
    /\ rt' = [rt EXCEPT !["sweep"] =
                 IF s.call = 0 THEN IdleCall
                 ELSE NewCall(s.call, RefreshAccountToken(s.call))]

\* The sweep when its suspended call comes back with a result (or is caught
\* raising): "if success: refreshed += 1", then the loop goes on.
SweepResume(result) ==
    LET ev == [sw.evals EXCEPT ![Len(sw.evals)].result = result]
    IN SweepGoesOn(SweepScan(sw.queue, ev, sw.force, sw.snap), sw.force, sw.snap,
                   sw.refreshed + (IF result = Success THEN 1 ELSE 0))

\* refresh_all_tokens(force) from its call to its first suspension.
RefreshAllTokens(force) ==
    /\ sw.pc # "running"
    /\ nsweeps < MaxSweeps
    /\ LET snap == IF backend = "db" THEN [i \in AllIds |-> acct[i].expires_at]
                   ELSE IdleSweep.snap
           q == Ascending(IF backend = "db" THEN active ELSE stored)
       IN SweepGoesOn(SweepScan(q, <<>>, force, snap), force, snap, 0)
    /\ nsweeps' = nsweeps + 1
    /\ UNCHANGED <<poolVars, recVars, now, ntok, hist, issued, nrefresh, nticks,
                   oauthVars, extVars>>

\* POST /accounts/{id}/refresh: a manual refresh_account_token call.  The
\* handlers are alike: the second one is taken when the first is busy.
RefreshAccountTokenHandler(t, id) ==
    /\ t \in Manual
    /\ rt[t].pc \in {"idle", "done"}
    /\ t = "m2" => rt["m1"].pc \in {"http", "select"}
    /\ nrefresh < MaxRefreshes
    /\ rt' = [rt EXCEPT ![t] = NewCall(id, RefreshAccountToken(id))]
    /\ nrefresh' = nrefresh + 1
    /\ UNCHANGED <<poolVars, recVars, now, sw, ntok, hist, issued, nsweeps, nticks,
                   oauthVars, extVars>>

\* db backend: the SELECT of a refresh_account_token call returns.
DbSelect(t) ==
    /\ rt[t].pc = "select"
    /\ LET id == rt[t].id
           o == RefreshAccountTokenDb(id)
       IN IF t = "sweep"
          THEN SweepResume(o.result)
          ELSE /\ rt' = [rt EXCEPT ![t] = [NewCall(id, o) EXCEPT !.pc = "done"]]
               /\ UNCHANGED sw
    /\ UNCHANGED <<poolVars, recVars, now, ntok, hist, issued, nrefresh, nsweeps,
                   nticks, oauthVars, extVars>>

\* What the file backend's _refresh_social_token and _refresh_idc_token
\* return for an answer: their one handler is "except Exception as e:
\* return False, f'Refresh failed: {str(e)}'", and httpx puts the status
\* line into the text of an HTTPStatusError.
RefreshResult(resp) ==
    IF resp.status # 200
    THEN CASE resp.status = 401 -> "Refresh failed: Client error '401 Unauthorized' for url"
           [] resp.status = 500 ->
                "Refresh failed: Server error '500 Internal Server Error' for url"
           [] OTHER -> "Refresh failed: All connection attempts failed"
    ELSE IF ~resp.access THEN "No access token in response"
    ELSE Success

\* "new_refresh_token or account.refresh_token", account being the object
\* the pool holds in _accounts, read when the response is there; sent is
\* the record as it was when the request was made.
RefreshTokenToStoreFromRequest(resp, tok, account, sent) ==
    IF resp.refresh THEN tok ELSE sent.refresh_token

RefreshTokenToStore(resp, tok, account, sent) ==
    IF resp.refresh THEN tok ELSE account.refresh_token

\* file backend: the POST of a refresh returns and the call runs to its end,
\* update_account_tokens included.
HttpReply(t, resp) ==
    /\ rt[t].pc = "http"
    /\ LET id == rt[t].id
           account == acct[id]
           ok == resp.status = 200 /\ resp.access
           tok == ntok + 2
           expires_at == ExpiresAt(now, resp.expires_in)
           refresh_token == RefreshTokenToStore(resp, tok, account, rt[t].seen)
           profile_arn == IF resp.profile /\ rt[t].sent = <<"kiro">>
                          THEN tok ELSE account.profile_arn
           result == RefreshResult(resp)
           written == ok /\ id \in stored
       IN /\ ntok' = IF ok THEN ntok + 1 ELSE ntok
          /\ acct' = IF written
                     THEN [acct EXCEPT ![id] = UpdatedTokens(@, tok, refresh_token,
                                                             expires_at, profile_arn)]
                     ELSE acct
          /\ cache' = IF written /\ id \in auth_managers
                      THEN [cache EXCEPT ![id] = UpdatedTokens(@, tok, refresh_token,
                                                               expires_at, profile_arn)]
                      ELSE cache
          /\ hist' = IF written
                     THEN [hist EXCEPT ![id] =
                              Append(@, [expires_at |-> acct'[id].expires_at,
                                         at |-> now, expires_in |-> resp.expires_in])]
                     ELSE hist
          /\ issued' = IF ok THEN [issued EXCEPT ![id] = @ \cup {<<tok, expires_at>>}]
                       ELSE issued
          /\ IF t = "sweep"
             THEN SweepResume(result)
             ELSE /\ rt' = [rt EXCEPT ![t].pc = "done", ![t].result = result]
                  /\ UNCHANGED sw
    /\ UNCHANGED <<poolVars, now, nrefresh, nsweeps, nticks, oauthVars, extVars>>

\* Time passes: by the 30 s a request may take, or, with no request in
\* flight, by the 300 s the refresh loop sleeps.
Tick(d) ==
    /\ nticks < MaxTicks
    /\ d = 30 <=> \E t \in Tasks : rt[t].pc = "http"
    /\ now' = now + d
    /\ nticks' = nticks + 1
    /\ UNCHANGED <<poolVars, recVars, rt, sw, ntok, hist, issued, nrefresh, nsweeps,
                   oauthVars, extVars>>

\* No refresh under way, nothing refreshed yet.
RefreshParked ==
    /\ now = 0
    /\ rt = [t \in Tasks |-> IdleCall]
    /\ sw = IdleSweep
    /\ ntok = 0
    /\ hist = [i \in AllIds |-> <<>>]
    /\ nrefresh = 0
    /\ nsweeps = 0
    /\ nticks = 0

\* ----------------------------------------------------------- OAuth acquirer
callback_port_start == 19876
callback_port_end == 19880
MaxAttempts == 2

\* __init__'s default poll_interval; "max_attempts = self.auth_timeout //
\* self.poll_interval".
DefaultPollInterval == 5
max_attempts == auth_timeout \div poll_interval

Handlers == {"h1", "h2"}
FlowIds == 1 .. MaxFlows
ConnIds == 1 .. MaxConns

\* _current_auth: None, or the method of the flow it describes.
NoAuth == [method |-> "none", flow |-> 0]

\* A flow not created yet / the callback server of a social flow once
\* constructed / the polling task of a device-code flow once created.  The
\* expected state of flow f is f itself: every flow draws its own.  Of a
\* polling task: attempts, the answer to its last poll, the length of the
\* sleep that followed it and the sum of its sleeps so far.  account: the id
\* of the record complete_account_auth added from the flow's result.
NoFlow ==
    [kind |-> "none", has_server |-> FALSE, listening |-> FALSE, port |-> 0,
     error |-> "", result |-> FALSE, done |-> FALSE, st |-> "", attempts |-> 0,
     answer |-> "", wait |-> 0, slept |-> 0, account |-> 0]

NewServer(port) == [NoFlow EXCEPT !.kind = "social", !.port = port]

NewPoller == [NoFlow EXCEPT !.kind = "builder-id", !.st = "post", !.attempts = 1]

\* A handler with no call on the manager under way; out: how its last ended.
\* In complete_account_auth: got, the flow whose result wait_for_auth
\* returned, and method, what the handler then read from _current_auth.
IdleHandler(out) ==
    [pc |-> "idle", flow |-> 0, then |-> "", hit |-> {}, out |-> out,
     got |-> 0, method |-> ""]

\* The part of the state the manager's methods work on.
Bundle == [om |-> om, flows |-> flows, hs |-> hs, cancelled |-> cancelled,
           nflows |-> nflows]

SetBundle(s) ==
    /\ om' = s.om
    /\ flows' = s.flows
    /\ hs' = s.hs
    /\ cancelled' = s.cancelled
    /\ nflows' = s.nflows

\* The polling task of flow p has not ended.
Live(f) == f.kind = "builder-id" /\ f.st \in {"post", "sleep"}

\* Connections of server v that its handler has not closed yet.
OpenConns(v) == \E c \in ConnIds : conns[c].pc = "exchange" /\ conns[c].srv = v

\* _find_available_port: the first port of the range no listener is bound to
\* (0: none, the call raises RuntimeError).
FindAvailablePort(fl) ==
    LET free == {q \in callback_port_start .. callback_port_end :
                    \A f \in FlowIds : ~(fl[f].listening /\ fl[f].port = q)}
    IN IF free = {} THEN 0 ELSE CHOOSE q \in free : \A r \in free : q <= r

\* The call of handler h ends (returning, or raising out).
Finish(s, h, out) == [s EXCEPT !.hs[h] = IdleHandler(out)]

\* What follows a completed cancel_auth in handler h: the rest of
\* start_social_auth up to "await self._active_server.start()", the rest of
\* start_builder_id_auth up to its first POST, or the return of the call.
\* When wait_for_auth returns a result, complete_account_auth goes on to
\* 'auth_status = oauth_manager._current_auth or {}' and
\* 'auth_status.get("method", "social")', up to "await add_account".
After(s, h) ==
    CASE s.hs[h].then = "ss" ->
            LET port == FindAvailablePort(s.flows)
                v == s.nflows + 1
            IN IF port = 0 THEN Finish(s, h, "RuntimeError")
               ELSE [s EXCEPT !.flows[v] = NewServer(port),
                              !.nflows = v,
                              !.om.active_server = v,
                              !.hs[h].pc = "ss_start",
                              !.hs[h].flow = v]
      [] s.hs[h].then = "sb" -> [s EXCEPT !.hs[h].pc = "sb_register"]
      [] s.hs[h].then = "wret" /\ s.hs[h].out = "ok" ->
            [s EXCEPT !.hs[h].pc = "add_account",
                      !.hs[h].method = IF s.om.current_auth.method = "none"
                                       THEN "social"
                                       ELSE s.om.current_auth.method]
      [] OTHER -> Finish(s, h, s.hs[h].out)

\* cancel_auth, last line: "self._current_auth = None".
CancelFinish(s, h) ==
    After([s EXCEPT !.om.current_auth = NoAuth,
                    !.cancelled = @ \cup s.hs[h].hit], h)

\* cancel_auth, "if self._active_polling_task:" block.  cancel() ends a task
\* that is still polling or sleeping; awaiting a task that has failed raises
\* its exception out of cancel_auth.
CancelPoll(s, h) ==
    LET p == s.om.active_polling_task
    IN IF p = 0 THEN CancelFinish(s, h)
       ELSE IF Live(s.flows[p])
       THEN [s EXCEPT !.flows[p].st = "cancelled",
                      !.hs[h].pc = "ca_await_task",
                      !.hs[h].flow = p,
                      !.hs[h].hit = @ \cup {p}]
       ELSE IF s.flows[p].st = "failed"
       THEN Finish(s, h, s.flows[p].error)
       ELSE CancelFinish([s EXCEPT !.om.active_polling_task = 0], h)

\* cancel_auth after "await self._active_server.stop()".
CancelAfterStop(s, h) == CancelPoll([s EXCEPT !.om.active_server = 0], h)

\* cancel_auth from its first line.  stop() does nothing on a server whose
\* start() has not returned yet (_server is None); otherwise it closes the
\* listener and waits in wait_closed.
CancelAuth(s, h) ==
    LET v == s.om.active_server
    IN IF v = 0 THEN CancelPoll(s, h)
       ELSE IF ~s.flows[v].has_server
       THEN CancelAfterStop([s EXCEPT !.hs[h].hit = @ \cup {v}], h)
       ELSE LET s1 == [s EXCEPT !.flows[v].listening = FALSE,
                                !.hs[h].hit = @ \cup {v}]
            IN IF wait_closed_waits /\ OpenConns(v)
               THEN [s1 EXCEPT !.hs[h].pc = "ca_wait_closed", !.hs[h].flow = v]
               ELSE CancelAfterStop([s1 EXCEPT !.flows[v].has_server = FALSE], h)

\* Handlers inside a start call that has not created its flow yet.
PendingStarts ==
    {h \in Handlers : /\ hs[h].then \in {"ss", "sb"}
                      /\ hs[h].pc \in {"ca_wait_closed", "ca_await_task",
                                       "sb_register", "sb_device"}}

\* A call on the manager by handler h begins.
Called(h, then) ==
    [Bundle EXCEPT !.hs[h] = [IdleHandler("ok") EXCEPT !.then = then]]

\* A step of the manager's code: everything else stays.
OAuthStep(s) ==
    /\ SetBundle(s)
    /\ UNCHANGED <<poolVars, recVars, refreshVars, cfgVars, extVars>>

\* start_social_auth from its call to its first suspension.
StartSocialAuth(h) ==
    /\ hs[h].pc = "idle"
    /\ nhops < MaxHandlerOps
    /\ nflows + Cardinality(PendingStarts) < MaxFlows
    /\ OAuthStep(CancelAuth(Called(h, "ss"), h))
    /\ nhops' = nhops + 1
    /\ UNCHANGED <<conns, saved>>

\* "await self._active_server.start()" returns or raises OSError (the port
\* was taken meanwhile); then "self._current_auth = {...}".
StartServerDone(h) ==
    /\ hs[h].pc = "ss_start"
    /\ LET v == hs[h].flow
           taken == \E f \in FlowIds : flows[f].listening /\ flows[f].port = flows[v].port
       IN IF taken
          THEN OAuthStep(Finish(Bundle, h, "OSError"))
          ELSE OAuthStep(Finish([Bundle EXCEPT !.flows[v].has_server = TRUE,
                                               !.flows[v].listening = TRUE,
                                               !.om.current_auth =
                                                   [method |-> "social", flow |-> v]],
                                h, "ok"))
    /\ UNCHANGED <<conns, saved, nhops>>

\* start_builder_id_auth from its call to its first suspension.
StartBuilderIdAuth(h) ==
    /\ hs[h].pc = "idle"
    /\ nhops < MaxHandlerOps
    /\ nflows + Cardinality(PendingStarts) < MaxFlows
    /\ OAuthStep(CancelAuth(Called(h, "sb"), h))
    /\ nhops' = nhops + 1
    /\ UNCHANGED <<conns, saved>>

\* The client registration is answered.
RegisterReply(h, ok) ==
    /\ hs[h].pc = "sb_register"
    /\ OAuthStep(IF ok THEN [Bundle EXCEPT !.hs[h].pc = "sb_device"]
                 ELSE Finish(Bundle, h, "HTTPError"))
    /\ UNCHANGED <<conns, saved, nhops>>

\* The device authorization is answered: _current_auth is set and the
\* polling task created; the task runs up to its first POST.
DeviceAuthReply(h, ok) ==
    /\ hs[h].pc = "sb_device"
    /\ LET p == nflows + 1
       IN OAuthStep(IF ok
                    THEN Finish([Bundle EXCEPT !.flows[p] = NewPoller,
                                               !.nflows = p,
                                               !.om.current_auth =
                                                   [method |-> "builder-id", flow |-> p],
                                               !.om.active_polling_task = p],
                                h, "ok")
                    ELSE Finish(Bundle, h, "HTTPError"))
    /\ UNCHANGED <<conns, saved, nhops>>

\* POST /accounts/cancel-auth: cancel_auth from its call.
CancelAccountAuth(h) ==
    /\ hs[h].pc = "idle"
    /\ nhops < MaxHandlerOps
    /\ OAuthStep(CancelAuth(Called(h, "ret"), h))
    /\ nhops' = nhops + 1
    /\ UNCHANGED <<conns, saved>>

\* cancel_auth resumes from wait_closed: the server's connections are gone.
CancelWaitClosedDone(h) ==
    /\ hs[h].pc = "ca_wait_closed"
    /\ ~OpenConns(hs[h].flow)
    /\ OAuthStep(CancelAfterStop([Bundle EXCEPT !.flows[hs[h].flow].has_server = FALSE], h))
    /\ UNCHANGED <<conns, saved, nhops>>

\* cancel_auth resumes from "await self._active_polling_task": the task has
\* ended with CancelledError; "self._active_polling_task = None".
CancelAwaitTaskDone(h) ==
    /\ hs[h].pc = "ca_await_task"
    /\ OAuthStep(CancelFinish([Bundle EXCEPT !.om.active_polling_task = 0], h))
    /\ UNCHANGED <<conns, saved, nhops>>

\* wait_for_auth from its call to its first suspension.
WaitForAuth(h) ==
    /\ hs[h].pc = "idle"
    /\ nhops < MaxHandlerOps
    /\ LET s == Called(h, "wret")
           failed == [s EXCEPT !.hs[h].out = "RuntimeError"]
       IN OAuthStep(
            IF om.current_auth.method = "none" THEN Finish(s, h, "RuntimeError")
            ELSE IF om.current_auth.method = "social"
            THEN IF om.active_server = 0 THEN CancelAuth(failed, h)
                 ELSE [s EXCEPT !.hs[h].pc = "w_callback",
                                !.hs[h].flow = om.active_server]
            ELSE IF om.active_polling_task = 0 THEN CancelAuth(failed, h)
                 ELSE [s EXCEPT !.hs[h].pc = "w_task",
                                !.hs[h].flow = om.active_polling_task])
    /\ nhops' = nhops + 1
    /\ UNCHANGED <<conns, saved>>

\* wait_for_callback resumes: the done event is set (ValueError when _error
\* is set, else the result), or the timeout has passed; "finally" cancels.
WaitCallbackDone(h) ==
    /\ hs[h].pc = "w_callback"
    /\ LET v == hs[h].flow
           out == IF ~flows[v].done THEN "TimeoutError"
                  ELSE IF flows[v].error # "" THEN "ValueError"
                  ELSE "ok"
       IN OAuthStep(CancelAuth([Bundle EXCEPT !.hs[h].out = out, !.hs[h].got = v], h))
    /\ UNCHANGED <<conns, saved, nhops>>

\* "await self._active_polling_task" resumes: the task has ended.
WaitTaskDone(h) ==
    /\ hs[h].pc = "w_task"
    /\ ~Live(flows[hs[h].flow])
    /\ LET f == flows[hs[h].flow]
           out == IF f.st = "done" THEN "ok"
                  ELSE IF f.st = "cancelled" THEN "CancelledError"
                  ELSE f.error
       IN OAuthStep(CancelAuth([Bundle EXCEPT !.hs[h].out = out,
                                              !.hs[h].got = hs[h].flow], h))
    /\ UNCHANGED <<conns, saved, nhops>>

\* What a flow's result carries: the poller's tokens have authMethod "IdC",
\* _clientId, _clientSecret and expiresAt; the code exchange's response has
\* none of them.
ResultOf(kind) ==
    IF kind = "builder-id"
    THEN [authMethod |-> "IdC", client_id |-> TRUE, client_secret |-> TRUE,
          expiresAt |-> TRUE]
    ELSE [authMethod |-> "social", client_id |-> FALSE, client_secret |-> FALSE,
          expiresAt |-> FALSE]

\* complete_account_auth from "await account_manager.add_account(...)" on
\* (LocalAccountManager.add_account, one locked block): the record gets the
\* method the handler read, extra_data with the client data if the result
\* has _clientId, and the result's expiresAt.
CompleteAccountAuth(h) ==
    /\ hs[h].pc = "add_account"
    /\ backend = "file"
    /\ next_id \in AllIds
    /\ LET r == ResultOf(flows[hs[h].got].kind)
           account == Account(hs[h].method, r.client_id, r.client_id /\ r.client_secret,
                              1, IF r.expiresAt THEN now + 3600 ELSE NoExpiry)
       IN /\ MemAdd(next_id, account)
          /\ acct' = [acct EXCEPT ![next_id] = account]
    /\ stored' = stored \cup {next_id}
    /\ active' = active \cup {next_id}
    /\ next_id' = next_id + 1
    /\ Touched
    /\ flows' = [flows EXCEPT ![hs[h].got].account = next_id]
    /\ hs' = [hs EXCEPT ![h] = IdleHandler("ok")]
    /\ UNCHANGED <<backend, request_count, usage_tasks, pending, caller_ret,
                   batch_pre, ncalls, nops>>
    /\ UNCHANGED <<refreshVars, cfgVars, extVars, om, conns, saved, cancelled, nflows, nhops>>

\* ------------------------------------------------------ the callback server
\* A request: the method and the path of its request line (method "": the
\* line has no second part) and the "key=value" items of its query string in
\* order.  Values are numbers: a state is the number of the flow that drew
\* it, 0 is the empty string.
Paths == {"/oauth/callback", "/oauth/callbackx", "/favicon.ico"}
Items == ({"state"} \X {0, 1, 2}) \cup ({"code"} \X {0, 7}) \cup ({"error"} \X {0})
Queries == {<<>>} \cup {<<i>> : i \in Items} \cup {<<i, j>> : i, j \in Items}
              \cup {<<i, j, k>> : i, j, k \in Items}

\* The callbacks a browser sends at the end of a sign-in, with either state.
Callbacks ==
    {[method |-> "GET", path |-> "/oauth/callback",
      query |-> <<<<"state", f>>, <<"code", 7>>>>] : f \in FlowIds}

\* Every GET with every query, and the other request lines with the query
\* of a callback.
Requests ==
    [method : {"GET"}, path : Paths, query : Queries]
       \cup [method : {"POST", ""}, path : Paths, query : {cb.query : cb \in Callbacks}]

\* path.startswith("/oauth/callback")
StartsWithCallback(path) == path \in {"/oauth/callback", "/oauth/callbackx"}

\* "params[key] = value" over the items in order: the last one stays.
HasParam(q, key) == \E i \in 1 .. Len(q) : q[i][1] = key

Param(q, key) ==
    IF HasParam(q, key)
    THEN q[CHOOSE i \in 1 .. Len(q) :
               q[i][1] = key /\ \A j \in (i + 1) .. Len(q) : q[j][1] # key][2]
    ELSE 0

\* A handler that exchanges the code without looking at the state.
ClassifyNoState(req, expected_state) ==
    IF req.method = "" THEN "bad"
    ELSE IF req.method # "GET" \/ ~StartsWithCallback(req.path) THEN "ignored"
    ELSE IF HasParam(req.query, "error") THEN "error"
    ELSE IF Param(req.query, "code") = 0 THEN "nocode"
    ELSE "exchange"

\* _handle_connection up to the exchange: what becomes of the request.
Classify(req, expected_state) ==
    IF req.method = "" THEN "bad"
    ELSE IF req.method # "GET" \/ ~StartsWithCallback(req.path) THEN "ignored"
    ELSE IF HasParam(req.query, "error") THEN "error"
    ELSE IF Param(req.query, "state") # expected_state THEN "state"
    ELSE IF Param(req.query, "code") = 0 THEN "nocode"
    ELSE "exchange"

ErrorMsg(class) ==
    CASE class = "error" -> "OAuth error"
      [] class = "state" -> "State validation failed"
      [] class = "nocode" -> "No authorization code received"
      [] OTHER -> ""

IdleConn ==
    [pc |-> "idle", srv |-> 0, req |-> [method |-> "", path |-> "", query |-> <<>>],
     status |-> 0, exchanged |-> FALSE]

\* A connection to the listening server v is handled up to the token
\* exchange, or to its end when the request is turned down.  Connections
\* are numbered in the order in which they are accepted.
HandleConnection(c, v, req) ==
    /\ conns[c].pc = "idle"
    /\ \A d \in 1 .. (c - 1) : conns[d].pc # "idle"
    /\ flows[v].kind = "social" /\ flows[v].listening
    /\ LET class == Classify(req, v)
           conn == [IdleConn EXCEPT !.srv = v, !.req = req]
       IN CASE class = "exchange" ->
                 /\ conns' = [conns EXCEPT ![c] = [conn EXCEPT !.pc = "exchange",
                                                               !.exchanged = TRUE]]
                 /\ UNCHANGED flows
            [] class \in {"bad", "ignored"} ->
                 /\ conns' = [conns EXCEPT ![c] =
                                  [conn EXCEPT !.pc = "done",
                                               !.status = IF class = "bad" THEN 400 ELSE 204]]
                 /\ UNCHANGED flows
            [] OTHER ->
                 /\ conns' = [conns EXCEPT ![c] = [conn EXCEPT !.pc = "done",
                                                               !.status = 400]]
                 /\ flows' = [flows EXCEPT ![v].error = ErrorMsg(class),
                                           ![v].done = TRUE]
    /\ UNCHANGED <<poolVars, recVars, refreshVars, cfgVars, extVars, om, hs, saved,
                   cancelled, nflows, nhops>>

\* The token exchange of connection c is answered: on success _result is
\* set and on_success saves the credential; the done event is set.
ExchangeReply(c, ok) ==
    /\ conns[c].pc = "exchange"
    /\ LET v == conns[c].srv
       IN /\ conns' = [conns EXCEPT ![c].pc = "done",
                                    ![c].status = IF ok THEN 200 ELSE 500]
          /\ flows' = [flows EXCEPT ![v].result = IF ok THEN TRUE ELSE @,
                                    ![v].error = IF ok THEN @ ELSE "Token exchange failed",
                                    ![v].done = TRUE]
          /\ saved' = IF ok
                      THEN Append(saved, [flow |-> v, conn |-> c,
                                          after_cancel |-> v \in cancelled,
                                          credentials |-> ResultOf("social")])
                      ELSE saved
    /\ UNCHANGED <<poolVars, recVars, refreshVars, cfgVars, extVars, om, hs,
                   cancelled, nflows, nhops>>

\* ------------------------------------------------------ the device-code poller
PollAnswers ==
    {"accessToken", "authorization_pending", "slow_down", "expired_token",
     "access_denied", "invalid_grant", "HTTPError"}

\* A poll answered like authorization_pending whatever the error.
PollAnswerAllPending(f, answer, interval) ==
    IF answer = "accessToken"
    THEN [f EXCEPT !.answer = answer, !.st = "done", !.result = TRUE]
    ELSE [f EXCEPT !.answer = answer, !.st = "sleep", !.wait = interval,
                   !.slept = @ + interval]

\* The body of the polling loop from the response on: what becomes of the
\* task for each answer (HTTPError: the POST raised httpx.HTTPError).
PollAnswer(f, answer, interval) ==
    CASE answer = "accessToken" ->
            [f EXCEPT !.answer = answer, !.st = "done", !.result = TRUE]
      [] answer \in {"authorization_pending", "HTTPError"} ->
            [f EXCEPT !.answer = answer, !.st = "sleep", !.wait = interval,
                      !.slept = @ + interval]
      [] answer = "slow_down" ->
            [f EXCEPT !.answer = answer, !.st = "sleep", !.wait = interval + 5,
                      !.slept = @ + interval + 5]
      [] answer = "expired_token" ->
            [f EXCEPT !.answer = answer, !.st = "failed",
                      !.error = "Device code expired"]
      [] answer = "access_denied" ->
            [f EXCEPT !.answer = answer, !.st = "failed",
                      !.error = "User denied authorization"]
      [] OTHER ->
            [f EXCEPT !.answer = answer, !.st = "failed",
                      !.error = "Authorization failed"]

\* The poll of task p is answered.
PollReply(p, answer) ==
    /\ Live(flows[p]) /\ flows[p].st = "post"
    /\ flows' = [flows EXCEPT ![p] = PollAnswer(@, answer, poll_interval)]
    /\ saved' = IF answer = "accessToken"
                THEN Append(saved, [flow |-> p, conn |-> 0,
                                    after_cancel |-> p \in cancelled,
                                    credentials |-> ResultOf("builder-id")])
                ELSE saved
    /\ UNCHANGED <<poolVars, recVars, refreshVars, cfgVars, extVars, om, hs, conns,
                   cancelled, nflows, nhops>>

\* The sleep of task p ends: "while attempts < max_attempts".
PollWake(p) ==
    /\ Live(flows[p]) /\ flows[p].st = "sleep"
    /\ flows' = [flows EXCEPT ![p] =
                    IF @.attempts < max_attempts
                    THEN [@ EXCEPT !.st = "post", !.attempts = @ + 1]
                    ELSE [@ EXCEPT !.st = "failed", !.error = "Authorization timeout"]]
    /\ UNCHANGED <<poolVars, recVars, refreshVars, cfgVars, extVars, om, hs, conns,
                   saved, cancelled, nflows, nhops>>

\* The manager as constructed, nothing connected.
OAuthParked ==
    /\ poll_interval = DefaultPollInterval
    /\ auth_timeout = MaxAttempts * DefaultPollInterval
    /\ om = [active_server |-> 0, active_polling_task |-> 0, current_auth |-> NoAuth]
    /\ flows = [f \in FlowIds |-> NoFlow]
    /\ hs = [h \in Handlers |-> IdleHandler("")]
    /\ conns = [c \in ConnIds |-> IdleConn]
    /\ saved = <<>>
    /\ cancelled = {}
    /\ nflows = 0
    /\ nhops = 0

\* ------------------------------------------- per-request bearer authentication
cache_ttl_seconds == 300
cache_cleanup_interval == 600

\* An Authorization header: what it starts with, and the rest as a string of
\* characters, 0 a blank and 1, 2 token characters.  scheme "": no header,
\* or an empty one.
Schemes == {"", "Bearer ", "bearer ", "Bearer", "Basic "}
Chars == {0, 1}
Strings == {<<>>} \cup {<<a>> : a \in Chars} \cup {<<a, b>> : a, b \in Chars}
Headers == {[scheme |-> "", rest |-> <<>>]} \cup [scheme : Schemes \ {""}, rest : Strings]

\* str.strip() on a string of at most two characters.
Strip(str) ==
    LET kept == {i \in 1 .. Len(str) :
                    /\ \E j \in 1 .. i : str[j] # 0
                    /\ \E j \in i .. Len(str) : str[j] # 0}
    IN IF kept = {} THEN <<>>
       ELSE LET lo == CHOOSE i \in kept : \A j \in kept : i <= j
                hi == CHOOSE i \in kept : \A j \in kept : j <= i
            IN SubSeq(str, lo, hi)

\* extract_bearer_token: the token, or <<>> for None.
ExtractBearerToken(header) ==
    IF header.scheme = "" THEN <<>>
    ELSE IF header.scheme # "Bearer " THEN <<>>
    ELSE Strip(header.rest)

\* _hash_token: the cache key of a token.  The 64 bits of the digest are cut
\* down to HashBuckets values, so that distinct tokens can share a key.
RECURSIVE SumOf(_)
SumOf(str) == IF str = <<>> THEN 0 ELSE Head(str) + SumOf(Tail(str))

HashToken(token) == SumOf(token) % HashBuckets

Keys == 0 .. (HashBuckets - 1)
BearerReqs == 1 .. MaxBearerReqs

\* No entry under a key / the entry cache_auth_manager stores; by: the
\* request that created the auth manager of the entry.
NoEntry == [cached |-> FALSE, refresh_token |-> <<>>, created_at |-> 0,
            last_used |-> 0, by |-> 0]

CachedAuthManager(token, t, r) ==
    [cached |-> TRUE, refresh_token |-> token, created_at |-> t, last_used |-> t,
     by |-> r]

\* _cleanup_cache at time t: the cache and _last_cache_cleanup it leaves.
CleanupCache(c, last, t) ==
    IF t - last < cache_cleanup_interval
    THEN [cache |-> c, last |-> last, swept |-> FALSE]
    ELSE [cache |-> [k \in Keys |->
                       IF c[k].cached /\ t - c[k].last_used > cache_ttl_seconds
                       THEN NoEntry ELSE c[k]],
          last |-> t, swept |-> TRUE]

\* A lookup that returns whatever entry it finds.
GetCachedAuthManagerAnyAge(c, last, t, token) ==
    LET s == CleanupCache(c, last, t)
        k == HashToken(token)
    IN [cache |-> [s.cache EXCEPT ![k].last_used = IF s.cache[k].cached THEN t ELSE @],
        last |-> s.last, swept |-> s.swept,
        found |-> c[k].cached, by |-> c[k].by]

\* get_cached_auth_manager at time t: the cache and _last_cache_cleanup it
\* leaves, whether it returned an auth manager, and whose.
GetCachedAuthManager(c, last, t, token) ==
    LET s == CleanupCache(c, last, t)
        k == HashToken(token)
        e == s.cache[k]
    IN IF ~e.cached
       THEN [cache |-> s.cache, last |-> s.last, swept |-> s.swept,
             found |-> FALSE, by |-> 0]
       ELSE IF t - e.last_used > cache_ttl_seconds
       THEN [cache |-> [s.cache EXCEPT ![k] = NoEntry], last |-> s.last,
             swept |-> s.swept, found |-> FALSE, by |-> 0]
       ELSE [cache |-> [s.cache EXCEPT ![k].last_used = t], last |-> s.last,
             swept |-> s.swept, found |-> TRUE, by |-> e.by]

\* A request whose authentication has not begun.  Of one that has: fn, the
\* function that ran; path, "header" (no usable token), "first" (no cached
\* auth manager), "cached" or "created"; ok, status and type, how it ended.
IdleReq ==
    [pc |-> "idle", fn |-> "", token |-> <<>>, path |-> "", ok |-> FALSE,
     status |-> 0, type |-> ""]

\* The HTTPException(401, {"error": {"type": "authentication_error", ...}}).
Unauthorized(req) ==
    [req EXCEPT !.pc = "done", !.ok = FALSE, !.status = 401,
                !.type = "authentication_error"]

Passed(req) == [req EXCEPT !.pc = "done", !.ok = TRUE, !.status = 200]

\* A validation that caches the auth manager whatever the outcome.
AfterValidationCaches(c, path, ok, token, t, r) ==
    [c EXCEPT ![HashToken(token)] = CachedAuthManager(token, t, r)]

\* verify_api_key_or_token after "await auth_manager.get_access_token()":
\* the cache it leaves.  First sight: cache_auth_manager on success only;
\* cached: "_auth_manager_cache.pop(token_hash, None)" on failure.
AfterValidation(c, path, ok, token, t, r) ==
    IF path = "first"
    THEN IF ok THEN [c EXCEPT ![HashToken(token)] = CachedAuthManager(token, t, r)]
         ELSE c
    ELSE IF ok THEN c
         ELSE [c EXCEPT ![HashToken(token)] = NoEntry]

\* verify_api_key_or_token (AUTH_MODE "per_request") from the call to
\* "await auth_manager.get_access_token()".
VerifyApiKeyOrToken(header) ==
    /\ nbreq < MaxBearerReqs
    /\ nbreq' = nbreq + 1
    /\ LET r == nbreq + 1
           token == ExtractBearerToken(header)
           g == GetCachedAuthManager(auth_manager_cache, last_cache_cleanup, now, token)
           req == [IdleReq EXCEPT !.fn = "verify", !.token = token]
       IN IF token = <<>>
          THEN /\ br' = [br EXCEPT ![r] = Unauthorized([req EXCEPT !.path = "header"])]
               /\ UNCHANGED <<auth_manager_cache, last_cache_cleanup>>
          ELSE /\ br' = [br EXCEPT ![r] =
                            [req EXCEPT !.pc = "await",
                                        !.path = IF g.found THEN "cached" ELSE "first"]]
               /\ auth_manager_cache' = g.cache
               /\ last_cache_cleanup' = g.last
    /\ UNCHANGED <<poolVars, recVars, refreshVars, oauthVars, nbticks, transcoderVars,
                   lifecycleVars>>

\* get_access_token of request r's auth manager returns (ok) or raises.
AccessTokenReply(r, ok) ==
    /\ br[r].pc = "await"
    /\ auth_manager_cache' =
          AfterValidation(auth_manager_cache, br[r].path, ok, br[r].token, now, r)
    /\ br' = [br EXCEPT ![r] = IF ok THEN Passed(@) ELSE Unauthorized(@)]
    /\ UNCHANGED <<poolVars, recVars, refreshVars, oauthVars, last_cache_cleanup,
                   nbreq, nbticks, transcoderVars,
                   lifecycleVars>>

\* get_request_auth_manager (AUTH_MODE "per_request"): no await inside.  ok:
\* the KiroAuthManager constructor does not raise.
GetRequestAuthManager(header, ok) ==
    /\ nbreq < MaxBearerReqs
    /\ nbreq' = nbreq + 1
    /\ LET r == nbreq + 1
           token == ExtractBearerToken(header)
           g == GetCachedAuthManager(auth_manager_cache, last_cache_cleanup, now, token)
           req == [IdleReq EXCEPT !.fn = "get", !.token = token]
       IN IF token = <<>>
          THEN /\ br' = [br EXCEPT ![r] = Unauthorized([req EXCEPT !.path = "header"])]
               /\ UNCHANGED <<auth_manager_cache, last_cache_cleanup>>
          ELSE /\ last_cache_cleanup' = g.last
               /\ IF g.found
                  THEN /\ br' = [br EXCEPT ![r] = Passed([req EXCEPT !.path = "cached"])]
                       /\ auth_manager_cache' = g.cache
                  ELSE IF ok
                  THEN /\ br' = [br EXCEPT ![r] = Passed([req EXCEPT !.path = "created"])]
                       /\ auth_manager_cache' =
                             [g.cache EXCEPT ![HashToken(token)] =
                                                CachedAuthManager(token, now, r)]
                  ELSE /\ br' = [br EXCEPT ![r] =
                                    Unauthorized([req EXCEPT !.path = "created"])]
                       /\ auth_manager_cache' = g.cache
    /\ UNCHANGED <<poolVars, recVars, refreshVars, oauthVars, nbticks, transcoderVars,
                   lifecycleVars>>

\* time.time() moves on.
BearerSteps == {300, 301}

BearerTick(d) ==
    /\ nbticks < MaxBearerTicks
    /\ nbticks' = nbticks + 1
    /\ now' = now + d
    /\ UNCHANGED <<poolVars, recVars, rt, sw, ntok, hist, issued, nrefresh, nsweeps,
                   nticks, oauthVars, auth_manager_cache, last_cache_cleanup, br, nbreq,
                   transcoderVars,
                   lifecycleVars>>

\* The module as imported: an empty cache that was never swept (the
\* clock's origin is the start of the process; _last_cache_cleanup = 0.0 is
\* then far more than a cleanup interval in the past).
BearerParked ==
    /\ auth_manager_cache = [k \in Keys |-> NoEntry]
    /\ last_cache_cleanup = 0 - cache_cleanup_interval
    /\ br = [r \in BearerReqs |-> IdleReq]
    /\ nbreq = 0
    /\ nbticks = 0

\* ------------------------------------------------------ streaming responses
first_token_max_retries == 3

StreamIds == 1 .. MaxStreams
UpstreamStatuses == {200, 403, 500}
UpstreamEvents == {"byte", "timeout", "eof"}

\* A chat completion request that has not been received.  opened and closed
\* count the upstream connections made and closed for it; sent, the chunks
\* yielded downstream; done_marker, the "data: [DONE]" stream_wrapper sends
\* before it re-raises; error, the exception that ended the stream.
NoStream ==
    [pc |-> "idle", status |-> 0, opened |-> 0, closed |-> 0, sent |-> 0,
     done_marker |-> FALSE, error |-> "", client_disconnected |-> FALSE]

\* stream_kiro_to_openai on the one response it is given: what the generator
\* does on the next upstream event.  Until the first byte the wait is bounded
\* by first_token_timeout, after it by streaming_read_timeout.
StreamKiroToOpenai(pc, ev) ==
    CASE ev = "byte" -> "chunk"
      [] ev = "eof" -> "stop"
      [] ev = "timeout" /\ pc = "first" -> "FirstTokenTimeoutError"
      [] OTHER -> "ReadTimeout"

\* A wrapper whose cleanup is skipped when the generator raises.
StreamWrapperWithoutFinally(st, outcome) ==
    CASE outcome = "chunk" ->
           [st EXCEPT !.pc = "streaming", !.sent = @ + 1]
      [] outcome = "stop" ->
           [st EXCEPT !.pc = "done", !.closed = @ + 1]
      [] outcome = "GeneratorExit" ->
           [st EXCEPT !.pc = "done", !.client_disconnected = TRUE]
      [] outcome = "CancelledError" ->
           [st EXCEPT !.pc = "done"]
      [] OTHER ->
           [st EXCEPT !.pc = "done", !.done_marker = TRUE, !.error = outcome]

\* stream_wrapper around one outcome of the generator.  GeneratorExit and
\* CancelledError are no Exception: the first is caught by its own handler,
\* the second by none, and both reach the finally block.
StreamWrapper(st, outcome) ==
    CASE outcome = "chunk" ->
           [st EXCEPT !.pc = "streaming", !.sent = @ + 1]
      [] outcome = "stop" ->
           [st EXCEPT !.pc = "done", !.closed = @ + 1]
      [] outcome = "GeneratorExit" ->
           [st EXCEPT !.pc = "done", !.closed = @ + 1, !.client_disconnected = TRUE]
      [] outcome = "CancelledError" ->
           [st EXCEPT !.pc = "done", !.closed = @ + 1]
      [] OTHER ->
           [st EXCEPT !.pc = "done", !.closed = @ + 1, !.done_marker = TRUE,
                      !.error = outcome]

\* chat_completions with stream=true up to "return StreamingResponse": one
\* request_with_retry call, whose response has the given status.
ChatCompletions(s, status) ==
    /\ streams[s].pc = "idle"
    /\ streams' = [streams EXCEPT ![s] =
          IF status # 200
          THEN [@ EXCEPT !.pc = "done", !.status = status, !.opened = 1,
                         !.closed = 1, !.error = "kiro_api_error"]
          ELSE [@ EXCEPT !.pc = "first", !.status = 200, !.opened = 1]]
    /\ UNCHANGED <<poolVars, recVars, refreshVars, oauthVars, bearerVars, lifecycleVars,
                   parserVars, braceVars>>

\* The upstream of stream s sends a byte, stays silent too long or ends.
UpstreamEvent(s, ev) ==
    /\ streams[s].pc \in {"first", "streaming"}
    /\ ev = "byte" => streams[s].sent < MaxChunks
    /\ streams' = [streams EXCEPT ![s] =
                     StreamWrapper(@, StreamKiroToOpenai(@.pc, ev))]
    /\ UNCHANGED <<poolVars, recVars, refreshVars, oauthVars, bearerVars, lifecycleVars,
                   parserVars, braceVars>>

\* The client of stream s goes away: GeneratorExit at the wrapper's yield.
ClientDisconnect(s) ==
    /\ streams[s].pc = "streaming"
    /\ streams' = [streams EXCEPT ![s] = StreamWrapper(@, "GeneratorExit")]
    /\ UNCHANGED <<poolVars, recVars, refreshVars, oauthVars, bearerVars, lifecycleVars,
                   parserVars, braceVars>>

\* The task that serves stream s is cancelled while the generator waits for
\* the upstream: CancelledError at that await.
RequestCancelled(s) ==
    /\ streams[s].pc \in {"first", "streaming"}
    /\ streams' = [streams EXCEPT ![s] = StreamWrapper(@, "CancelledError")]
    /\ UNCHANGED <<poolVars, recVars, refreshVars, oauthVars, bearerVars, lifecycleVars,
                   parserVars, braceVars>>

StreamParked == streams = [s \in StreamIds |-> NoStream]

\* ---------------------------------------------------- AwsEventStreamParser
\* Payloads of content events; function names; the pieces of a tool call's
\* input; names and inputs are strings of characters.
Payloads == {"a", "b"}
Names == {<<"f">>, <<"f", "-">>}
Inputs == {<<>>, <<"1">>, <<" ">>, <<"-", "1">>}

\* The parsed JSON of an event and the kind its prefix gave it.  flag is the
\* truth of data.get('followupPrompt') in a content event and of
\* data.get('stop') in a tool_start or tool_stop event.
ContentEvents ==
    [type : {"content"}, data : Payloads, name : {<<>>}, input : {<<>>}, flag : BOOLEAN]
ToolStartEvents ==
    [type : {"tool_start"}, data : {""}, name : Names, input : Inputs, flag : BOOLEAN]
ToolInputEvents ==
    [type : {"tool_input"}, data : {""}, name : {<<>>}, input : Inputs, flag : {FALSE}]
ToolStopEvents ==
    [type : {"tool_stop"}, data : {""}, name : {<<>>}, input : {<<>>}, flag : BOOLEAN]
OtherEvents ==
    [type : {"usage", "followup"}, data : {""}, name : {<<>>}, input : {<<>>},
     flag : {FALSE}]
Events ==
    ContentEvents \cup ToolStartEvents \cup ToolInputEvents \cup ToolStopEvents
      \cup OtherEvents

\* json.dumps(json.loads(args)) where that parses, else args: of the strings
\* over "1", "-" and " " those that parse are the numerals, with or without a
\* sign, with blanks around.
IsJson(args) ==
    \E a, b \in 1 .. Len(args) :
      /\ a <= b
      /\ \A m \in 1 .. Len(args) : (m < a \/ m > b) => args[m] = " "
      /\ args[a] = "1" \/ (args[a] = "-" /\ a < b)
      /\ \A m \in (a + 1) .. b : args[m] = "1"

Normalised(args) ==
    IF IsJson(args) THEN SelectSeq(args, LAMBDA ch : ch # " ") ELSE args

\* The parser's fields: parser(last_content, current_tool_call, tool_calls).
Parser(last, current, tcs) ==
    [last_content |-> last, current_tool_call |-> current, tool_calls |-> tcs]

\* AwsEventStreamParser.__init__
NewParser == Parser(<<>>, <<>>, <<>>)

\* _finalize_tool_call
FinalizeToolCall(p) ==
    IF p.current_tool_call = <<>>
    THEN p
    ELSE LET call == p.current_tool_call[1]
         IN [p EXCEPT !.tool_calls =
                        Append(@, [call EXCEPT !.arguments = Normalised(@)]),
                      !.current_tool_call = <<>>]

\* A content event handler that emits every content it is given.
ProcessContentEventNoDedup(p, data) ==
    IF data.flag
    THEN [p |-> p, out |-> <<>>]
    ELSE [p |-> [p EXCEPT !.last_content = <<data.data>>],
          out |-> <<[type |-> "content", data |-> data.data]>>]

\* _process_content_event
ProcessContentEvent(p, data) ==
    IF data.flag
    THEN [p |-> p, out |-> <<>>]
    ELSE IF <<data.data>> = p.last_content
    THEN [p |-> p, out |-> <<>>]
    ELSE [p |-> [p EXCEPT !.last_content = <<data.data>>],
          out |-> <<[type |-> "content", data |-> data.data]>>]

\* The call a tool_start event opens; id stands for its toolUseId.
NewToolCall(id, data) == [id |-> id, name |-> data.name, arguments |-> data.input]

\* A tool_start handler that overwrites the call being accumulated.
ProcessToolStartEventDropsPrior(p, data, id) ==
    LET q == [p EXCEPT !.current_tool_call = <<NewToolCall(id, data)>>]
    IN [p |-> IF data.flag THEN FinalizeToolCall(q) ELSE q, out |-> <<>>]

\* _process_tool_start_event
ProcessToolStartEvent(p, data, id) ==
    LET p1 == IF p.current_tool_call # <<>> THEN FinalizeToolCall(p) ELSE p
        q == [p1 EXCEPT !.current_tool_call = <<NewToolCall(id, data)>>]
    IN [p |-> IF data.flag THEN FinalizeToolCall(q) ELSE q, out |-> <<>>]

\* _process_tool_input_event
ProcessToolInputEvent(p, data) ==
    [p |-> IF p.current_tool_call # <<>>
           THEN [p EXCEPT !.current_tool_call[1].arguments = @ \o data.input]
           ELSE p,
     out |-> <<>>]

\* _process_tool_stop_event
ProcessToolStopEvent(p, data) ==
    [p |-> IF p.current_tool_call # <<>> /\ data.flag THEN FinalizeToolCall(p) ELSE p,
     out |-> <<>>]

\* _process_event; id: the toolUseId a tool_start event would carry.
ProcessEventOf(p, data, id) ==
    CASE data.type = "content" -> ProcessContentEvent(p, data)
      [] data.type = "tool_start" -> ProcessToolStartEvent(p, data, id)
      [] data.type = "tool_input" -> ProcessToolInputEvent(p, data)
      [] data.type = "tool_stop" -> ProcessToolStopEvent(p, data)
      [] data.type = "usage" -> [p |-> p, out |-> <<[type |-> "usage", data |-> ""]>>]
      [] OTHER -> [p |-> p, out |-> <<>>]

\* key = f"{tc['function']['name']}-{tc['function']['arguments']}"
KeyOf(tc) == tc.name \o <<"-">> \o tc.arguments

\* deduplicate_tool_calls: a call is kept unless the key of an earlier one
\* (all of them are in "seen" by then) is its key.
RECURSIVE DeduplicateToolCalls(_)
DeduplicateToolCalls(tcs) ==
    IF tcs = <<>>
    THEN <<>>
    ELSE LET n == Len(tcs)
             front == DeduplicateToolCalls(SubSeq(tcs, 1, n - 1))
             tc == tcs[n]
         IN IF \E i \in 1 .. (n - 1) : KeyOf(tcs[i]) = KeyOf(tc)
            THEN front
            ELSE Append(front, tc)

TheParser == Parser(last_content, current_tool_call, tool_calls)

NotReturned == [called |-> FALSE, calls |-> <<>>]

\* feed has taken the next event out of the buffer: _process_event.
ProcessEvent(data) ==
    /\ Len(fed) < MaxEvents
    /\ ~returned.called
    /\ LET r == ProcessEventOf(TheParser, data, Len(fed) + 1)
       IN /\ last_content' = r.p.last_content
          /\ current_tool_call' = r.p.current_tool_call
          /\ tool_calls' = r.p.tool_calls
          /\ emitted' = emitted \o r.out
    /\ fed' = Append(fed, data)
    /\ UNCHANGED <<poolVars, recVars, refreshVars, oauthVars, bearerVars, lifecycleVars,
                   streamVars, braceVars, returned>>

\* get_tool_calls, at the end of the stream.
GetToolCalls ==
    /\ ~returned.called
    /\ LET p == FinalizeToolCall(TheParser)
       IN /\ current_tool_call' = p.current_tool_call
          /\ tool_calls' = p.tool_calls
          /\ returned' = [called |-> TRUE, calls |-> DeduplicateToolCalls(p.tool_calls)]
    /\ UNCHANGED <<poolVars, recVars, refreshVars, oauthVars, bearerVars, lifecycleVars,
                   streamVars, braceVars, last_content, fed, emitted>>

ParserParked ==
    /\ last_content = NewParser.last_content
    /\ current_tool_call = NewParser.current_tool_call
    /\ tool_calls = NewParser.tool_calls
    /\ fed = <<>>
    /\ emitted = <<>>
    /\ returned = NotReturned

\* ------------------------------------------------------ find_matching_brace
\* The characters that matter to the scanner, and one that does not.
BraceChars == {"{", "}", "\"", "\\", "a"}

RECURSIVE TextsOfLen(_)
TextsOfLen(n) ==
    IF n = 0 THEN {<<>>}
    ELSE {Append(t, ch) : t \in TextsOfLen(n - 1), ch \in BraceChars}

Texts == UNION {TextsOfLen(n) : n \in 0 .. MaxLen}
Positions == (0 - MaxLen - 1) .. (MaxLen + 1)

\* text[i] of a Python str: a negative index counts from the end.
CharAt(str, i) == str[(IF i < 0 THEN Len(str) + i ELSE i) + 1]

\* The loop "for i in range(start_pos, len(text))" from index i on.
RECURSIVE ScanBraces(_, _, _, _, _)
ScanBraces(str, i, brace_count, in_string, escape_next) ==
    IF i >= Len(str)
    THEN 0 - 1
    ELSE LET char == CharAt(str, i)
         IN IF escape_next
            THEN ScanBraces(str, i + 1, brace_count, in_string, FALSE)
            ELSE IF char = "\\" /\ in_string
            THEN ScanBraces(str, i + 1, brace_count, in_string, TRUE)
            ELSE IF char = "\""
            THEN ScanBraces(str, i + 1, brace_count, ~in_string, FALSE)
            ELSE IF ~in_string /\ char = "{"
            THEN ScanBraces(str, i + 1, brace_count + 1, in_string, FALSE)
            ELSE IF ~in_string /\ char = "}"
            THEN IF brace_count - 1 = 0
                 THEN i
                 ELSE ScanBraces(str, i + 1, brace_count - 1, in_string, FALSE)
            ELSE ScanBraces(str, i + 1, brace_count, in_string, FALSE)

\* What a call of find_matching_brace leaves: the value returned, or the
\* IndexError of text[start_pos].
Returned(v) == [called |-> TRUE, raised |-> "", value |-> v]
Raised(e) == [called |-> TRUE, raised |-> e, value |-> 0]
NotCalled == [called |-> FALSE, raised |-> "", value |-> 0]

\* find_matching_brace
FindMatchingBrace(str, pos) ==
    IF pos >= Len(str)
    THEN Returned(0 - 1)
    ELSE IF pos < 0 - Len(str)
    THEN Raised("IndexError")
    ELSE IF CharAt(str, pos) # "{"
    THEN Returned(0 - 1)
    ELSE Returned(ScanBraces(str, pos, 0, FALSE, FALSE))

\* find_matching_brace(text, start_pos) is called.
CallFindMatchingBrace ==
    /\ ~brace_at.called
    /\ brace_at' = FindMatchingBrace(text, start_pos)
    /\ UNCHANGED <<poolVars, recVars, refreshVars, oauthVars, bearerVars, lifecycleVars,
                   streamVars, parserVars, text, start_pos>>

BraceParked ==
    /\ text = <<>>
    /\ start_pos = 0
    /\ brace_at = NotCalled

TranscoderParked == StreamParked /\ ParserParked /\ BraceParked

\* ------------------------------------------- file backend: memory and file
\* LocalAccountManager answers every read (get_account, list_accounts,
\* get_total_requests) from _accounts and rewrites the whole file after each
\* change.  Of a record only request_count is kept here.
MaxFileOps == 4

Missing == [kind |-> "missing", next_id |-> 0, accounts |-> <<>>]
Truncated == [kind |-> "truncated", next_id |-> 0, accounts |-> <<>>]
Document(nid, accs) == [kind |-> "json", next_id |-> nid, accounts |-> accs]

\* What open(storage_file, 'w') and json.dump can do to the file: write it,
\* fail to open it (the file stays), or fail after open truncated it.
WriteOutcomes == {"written", "not opened", "truncated"}

\* _save_to_file: every exception is logged and dropped.
SaveToFile(file, nid, accs, outcome) ==
    CASE outcome = "written" -> Document(nid, accs)
      [] outcome = "not opened" -> file
      [] outcome = "truncated" -> Truncated

MaxOf(S) == CHOOSE x \in S : \A y \in S : y <= x

\* _load_from_file into the cleared memory: <<_next_id, _accounts>>.
LoadFromFile(file, nid) ==
    IF file.kind = "json"
    THEN <<IF DOMAIN file.accounts # {} /\ MaxOf(DOMAIN file.accounts) >= file.next_id
           THEN MaxOf(DOMAIN file.accounts) + 1
           ELSE file.next_id,
           file.accounts>>
    ELSE <<nid, <<>>>>

\* load_accounts.
FileLoadAccounts ==
    /\ nfileops < MaxFileOps
    /\ mem_next_id' = LoadFromFile(storage_file, mem_next_id)[1]
    /\ accounts' = LoadFromFile(storage_file, mem_next_id)[2]
    /\ mem_account_ids' = Ascending(DOMAIN accounts')
    /\ nfileops' = nfileops + 1
    /\ UNCHANGED <<poolVars, recVars, refreshVars, oauthVars, bearerVars, transcoderVars,
                   usageVars, codecVars, mem_current_index, mem_ret,
                   storage_file, lockVars, delayVars, loopVars>>

\* add_account: a new record with request_count 0 under _next_id.
FileAddAccount(outcome) ==
    /\ nfileops < MaxFileOps
    /\ accounts' = accounts @@ (mem_next_id :> 0)
    /\ mem_next_id' = mem_next_id + 1
    /\ mem_account_ids' = Append(mem_account_ids, mem_next_id)
    /\ storage_file' = SaveToFile(storage_file, mem_next_id', accounts', outcome)
    /\ nfileops' = nfileops + 1
    /\ UNCHANGED <<poolVars, recVars, refreshVars, oauthVars, bearerVars, transcoderVars,
                   usageVars, codecVars, mem_current_index, mem_ret,
                   lockVars, delayVars, loopVars>>

\* remove_account.
FileRemoveAccount(id, outcome) ==
    /\ nfileops < MaxFileOps
    /\ id \in DOMAIN accounts
    /\ accounts' = [i \in DOMAIN accounts \ {id} |-> accounts[i]]
    /\ mem_account_ids' = RemoveFirst(mem_account_ids, id)
    /\ mem_current_index' = IF Contains(mem_account_ids, id)
                            THEN ResetIndex(mem_current_index, mem_account_ids')
                            ELSE mem_current_index
    /\ storage_file' = SaveToFile(storage_file, mem_next_id, accounts', outcome)
    /\ nfileops' = nfileops + 1
    /\ UNCHANGED <<poolVars, recVars, refreshVars, oauthVars, bearerVars, transcoderVars,
                   usageVars, codecVars, mem_ret,
                   mem_next_id, lockVars, delayVars, loopVars>>

\* update_account and update_account_tokens: a rename, an activation toggle
\* or a refresh result; request_count is not among the fields they set.
FileUpdateAccount(id, outcome) ==
    /\ nfileops < MaxFileOps
    /\ id \in DOMAIN accounts
    /\ storage_file' = SaveToFile(storage_file, mem_next_id, accounts, outcome)
    /\ nfileops' = nfileops + 1
    /\ UNCHANGED <<poolVars, recVars, refreshVars, oauthVars, bearerVars, transcoderVars,
                   usageVars, codecVars, mem_account_ids, mem_current_index, mem_ret,
                   accounts, mem_next_id, lockVars, delayVars, loopVars>>

\* _update_account_usage of the file backend.
FileUpdateAccountUsage(id, outcome) ==
    /\ nfileops < MaxFileOps
    /\ id \in DOMAIN accounts
    /\ accounts' = [accounts EXCEPT ![id] = @ + 1]
    /\ storage_file' = SaveToFile(storage_file, mem_next_id, accounts', outcome)
    /\ nfileops' = nfileops + 1
    /\ UNCHANGED <<poolVars, recVars, refreshVars, oauthVars, bearerVars, transcoderVars,
                   usageVars, codecVars, mem_account_ids, mem_current_index, mem_ret,
                   mem_next_id, lockVars, delayVars, loopVars>>

\* get_next_account of that manager, whose records are all active.
FileGetNextAccount ==
    /\ nfileops < MaxFileOps
    /\ LET r == GetNextResult(mem_account_ids, mem_current_index, DOMAIN accounts)
       IN /\ mem_ret' = r[1]
          /\ mem_current_index' = r[2]
    /\ nfileops' = nfileops + 1
    /\ UNCHANGED <<poolVars, recVars, refreshVars, oauthVars, bearerVars, transcoderVars,
                   usageVars, codecVars, accounts, mem_next_id, storage_file,
                   mem_account_ids, lockVars, delayVars, loopVars>>

FileParked ==
    /\ accounts = <<>>
    /\ mem_next_id = 1
    /\ storage_file = Missing
    /\ nfileops = 0
    /\ mem_account_ids = <<>>
    /\ mem_current_index = 0
    /\ mem_ret = Idle

\* ------------------------------------------ KiroAuthManager.get_access_token
\* async with self._lock: refresh when the token is missing or expiring,
\* raise when there is still none, else return it.
MaxGetters == 4
Getters == 1 .. MaxGetters

OldToken == 1
ValidKiroToken == 2

NotAsked == [kind |-> "idle", token |-> 0]
Queued == [kind |-> "waiting", token |-> 0]
Refreshing == [kind |-> "refreshing", token |-> 0]
GotToken(tok) == [kind |-> "returned", token |-> tok]
GetRaised == [kind |-> "raised", token |-> 0]

\* not self._access_token or self.is_token_expiring_soon()
NeedsRefresh(m) == m.access_token = 0 \/ m.expiring

LockedNever(m) == FALSE

\* self._lock.locked()
Locked(m) == m.lock # 0

\* The body under the lock, up to its first suspension: the caller either
\* sends the refresh request or returns the token and releases the lock.
EnterLocked(c) ==
    IF NeedsRefresh(am)
    THEN /\ am' = [am EXCEPT !.lock = c]
         /\ gat' = [gat EXCEPT ![c] = Refreshing]
         /\ refresh_call_count' = refresh_call_count + 1
    ELSE /\ am' = [am EXCEPT !.lock = 0]
         /\ gat' = [gat EXCEPT ![c] = GotToken(am.access_token)]
         /\ UNCHANGED refresh_call_count

\* get_access_token is called: the lock is taken if free, else awaited.
GetAccessToken(c) ==
    /\ gat[c] = NotAsked
    /\ IF Locked(am)
       THEN /\ gat' = [gat EXCEPT ![c] = Queued]
            /\ UNCHANGED <<am, refresh_call_count>>
       ELSE EnterLocked(c)
    /\ UNCHANGED <<poolVars, recVars, refreshVars, oauthVars, bearerVars, transcoderVars,
                   usageVars, codecVars,
                   fileVars, delayVars, loopVars>>

\* The lock is released to a caller that waits for it.
LockAcquired(c) ==
    /\ gat[c] = Queued
    /\ ~Locked(am)
    /\ EnterLocked(c)
    /\ UNCHANGED <<poolVars, recVars, refreshVars, oauthVars, bearerVars, transcoderVars,
                   usageVars, codecVars,
                   fileVars, delayVars, loopVars>>

\* _refresh_token_request comes back: with a token valid for an hour, or
\* with an exception that leaves the manager as it was.
RefreshTokenRequestReturns(c, ok) ==
    /\ gat[c] = Refreshing
    /\ IF ok
       THEN /\ am' = [access_token |-> ValidKiroToken, expiring |-> FALSE, lock |-> 0]
            /\ gat' = [gat EXCEPT ![c] = GotToken(ValidKiroToken)]
       ELSE /\ am' = [am EXCEPT !.lock = 0]
            /\ gat' = [gat EXCEPT ![c] = GetRaised]
    /\ UNCHANGED <<poolVars, recVars, refreshVars, oauthVars, bearerVars, transcoderVars,
                   usageVars, codecVars,
                   fileVars, refresh_call_count, delayVars, loopVars>>

LockParked ==
    /\ am = [access_token |-> 0, expiring |-> TRUE, lock |-> 0]
    /\ gat = [c \in Getters |-> NotAsked]
    /\ refresh_call_count = 0

\* ------------------------- IdCTokenRefresher._calculate_next_refresh_delay
REFRESH_THRESHOLD_SECONDS == 300
MIN_REFRESH_INTERVAL == 60
MAX_CHECK_INTERVAL == 300
DefaultRefreshInterval == 1800

MaxTtl == 700
MinTtl == 0 - 3

\* What _get_seconds_until_expiry returns: None when the credentials file
\* has no expiresAt or cannot be read, else the seconds left (whole seconds
\* here), negative once the token has expired.
UnknownTtl == [known |-> FALSE, seconds |-> 0]
Ttl(n) == [known |-> TRUE, seconds |-> n]
Ttls == {UnknownTtl} \cup {Ttl(n) : n \in MinTtl .. MaxTtl}

\* The refresh_interval the refresher is built with.
RefreshIntervals == {DefaultRefreshInterval, 45}

Largest(a, b) == IF a >= b THEN a ELSE b
Smallest(a, b) == IF a <= b THEN a ELSE b

CalculateNextRefreshDelayUnclamped(ttl, interval) ==
    IF ~ttl.known
    THEN interval
    ELSE IF ttl.seconds <= 0
    THEN 0
    ELSE IF ttl.seconds <= REFRESH_THRESHOLD_SECONDS
    THEN MIN_REFRESH_INTERVAL
    ELSE ttl.seconds - REFRESH_THRESHOLD_SECONDS - 30

CalculateNextRefreshDelay(ttl, interval) ==
    IF ~ttl.known
    THEN interval
    ELSE IF ttl.seconds <= 0
    THEN 0
    ELSE IF ttl.seconds <= REFRESH_THRESHOLD_SECONDS
    THEN MIN_REFRESH_INTERVAL
    ELSE Largest(MIN_REFRESH_INTERVAL,
                 Smallest(ttl.seconds - REFRESH_THRESHOLD_SECONDS - 30,
                          MAX_CHECK_INTERVAL))

\* _calculate_next_refresh_delay is called.
CallCalculateNextRefreshDelay ==
    /\ ~next_delay.called
    /\ next_delay' = Returned(CalculateNextRefreshDelay(seconds_until_expiry,
                                                        refresh_interval))
    /\ UNCHANGED <<poolVars, recVars, refreshVars, oauthVars, bearerVars, transcoderVars,
                   usageVars, codecVars,
                   fileVars, lockVars, seconds_until_expiry, refresh_interval, loopVars>>

DelayParked ==
    /\ seconds_until_expiry = UnknownTtl
    /\ refresh_interval = DefaultRefreshInterval
    /\ next_delay = NotCalled

\* --------------------------------------- the pool's _auto_refresh_loop task
\* The same code in AccountManager and LocalAccountManager.  A sweep is a
\* refresh_all_tokens call; here only how it ends matters: it returns the
\* number of tokens refreshed (some, or none when every refresh failed or
\* none was due) or raises.
REFRESH_INTERVAL == 300

MaxLoopStarts == 2
MaxLoopSweeps == 2
LoopTasks == 1 .. MaxLoopStarts
SweepEnds == {"refreshed", "none refreshed", "exception"}
LoopSteps == {150, 300}

NoTask == [pc |-> "absent", cancel |-> FALSE, sweeps |-> 0, elapsed |-> 0, last |-> ""]

\* A task that CancelledError has ended: its frame is gone.
CancelledTask == [pc |-> "done", cancel |-> TRUE, sweeps |-> 0, elapsed |-> 0, last |-> ""]

\* Where the loop goes when a sweep has ended, whatever its end.
AfterSweepStopsOnException(end) == IF end = "exception" THEN "done" ELSE "sleep"

AfterSweep(end) == "sleep"

\* start_auto_refresh.
StartAutoRefresh ==
    /\ nloopstarts < MaxLoopStarts
    /\ IF refresh_task = 0
       THEN /\ refresh_task' = nloopstarts + 1
            /\ loops' = [loops EXCEPT ![nloopstarts + 1].pc = "created"]
            /\ nloopstarts' = nloopstarts + 1
       ELSE UNCHANGED loopVars
    /\ UNCHANGED <<poolVars, recVars, refreshVars, oauthVars, bearerVars, transcoderVars,
                   usageVars, codecVars,
                   fileVars, lockVars, delayVars>>

\* stop_auto_refresh: cancel() asks for a CancelledError at the task's
\* next suspension.
StopAutoRefresh ==
    /\ IF refresh_task # 0
       THEN /\ loops' = [loops EXCEPT ![refresh_task].cancel = TRUE]
            /\ refresh_task' = 0
       ELSE UNCHANGED <<loops, refresh_task>>
    /\ UNCHANGED <<poolVars, recVars, refreshVars, oauthVars, bearerVars, transcoderVars,
                   usageVars, codecVars,
                   fileVars, lockVars, delayVars, nloopstarts>>

\* The task starts to run: the initial refresh_all_tokens call.  A task
\* cancelled before its first step never runs.
LoopBegins(t) ==
    /\ loops[t].pc = "created"
    /\ loops' = [loops EXCEPT ![t] = IF @.cancel THEN CancelledTask
                                     ELSE [@ EXCEPT !.pc = "first sweep"]]
    /\ UNCHANGED <<poolVars, recVars, refreshVars, oauthVars, bearerVars, transcoderVars,
                   usageVars, codecVars,
                   fileVars, lockVars, delayVars, refresh_task, nloopstarts>>

\* The sweep ends.  CancelledError is no Exception: it leaves the initial
\* try and is what the loop breaks on; everything else is logged and the
\* loop goes to asyncio.sleep(REFRESH_INTERVAL).
SweepReturns(t, end) ==
    /\ loops[t].pc \in {"first sweep", "sweep"}
    /\ loops' = [loops EXCEPT ![t] =
         IF @.cancel
         THEN CancelledTask
         ELSE [@ EXCEPT !.pc = AfterSweep(end),
                        !.sweeps = Smallest(@ + 1, MaxLoopSweeps),
                        !.elapsed = 0,
                        !.last = end]]
    /\ UNCHANGED <<poolVars, recVars, refreshVars, oauthVars, bearerVars, transcoderVars,
                   usageVars, codecVars,
                   fileVars, lockVars, delayVars, refresh_task, nloopstarts>>

\* Time passes for the tasks that sleep.
LoopTick(d) ==
    /\ \E t \in LoopTasks : loops[t].pc = "sleep" /\ loops[t].elapsed < REFRESH_INTERVAL
    /\ loops' = [t \in LoopTasks |->
         IF loops[t].pc = "sleep"
         THEN [loops[t] EXCEPT !.elapsed = Smallest(@ + d, REFRESH_INTERVAL)]
         ELSE loops[t]]
    /\ UNCHANGED <<poolVars, recVars, refreshVars, oauthVars, bearerVars, transcoderVars,
                   usageVars, codecVars,
                   fileVars, lockVars, delayVars, refresh_task, nloopstarts>>

\* asyncio.sleep(REFRESH_INTERVAL) ends: cancelled, or the time is over and
\* the loop calls refresh_all_tokens.
SleepReturns(t) ==
    /\ loops[t].pc = "sleep"
    /\ loops[t].cancel \/ loops[t].elapsed >= REFRESH_INTERVAL
    /\ loops' = [loops EXCEPT ![t] = IF @.cancel THEN CancelledTask
                                     ELSE [@ EXCEPT !.pc = "sweep"]]
    /\ UNCHANGED <<poolVars, recVars, refreshVars, oauthVars, bearerVars, transcoderVars,
                   usageVars, codecVars,
                   fileVars, lockVars, delayVars, refresh_task, nloopstarts>>

LoopParked ==
    /\ refresh_task = 0
    /\ loops = [t \in LoopTasks |-> NoTask]
    /\ nloopstarts = 0

\* ------------------------------ LocalAccount.to_storage_dict and back
\* A Python value that may be None is <<>> for None and <<v>> for v.  A
\* datetime is its seconds since the epoch, its microsecond and its tzinfo:
\* <<>> for a naive one, else <<minutes of the UTC offset>>.
DateTime(seconds, microsecond, tz) ==
    [seconds |-> seconds, microsecond |-> microsecond, tz |-> tz]

\* JSON values of the file.
JsonNull == [j |-> "null"]
JsonString(str) == [j |-> "string", v |-> str]
JsonNumber(n) == [j |-> "number", v |-> n]
JsonBool(b) == [j |-> "bool", v |-> b]
JsonObject(keys) == [j |-> "object", v |-> keys]

\* The text datetime.isoformat() gives, by its parts: the date and time to
\* the second, ".ffffff" only when microsecond is not 0, "+HH:MM" only for
\* an aware datetime; and the suffix "Z" some other writer may have put.
IsoText(seconds, fraction, suffix) ==
    [seconds |-> seconds, fraction |-> fraction, suffix |-> suffix]

IsoFormat(dt) ==
    IsoText(dt.seconds,
            IF dt.microsecond = 0 THEN <<>> ELSE <<dt.microsecond>>,
            IF dt.tz = <<>> THEN "" ELSE "offset")

\* The offset "+HH:MM" stands for, kept beside the text.
IsoOffset(dt) == dt.tz

\* A parse that reads the time and drops the offset.
FromIsoFormatNaive(str, offset) ==
    DateTime(str.seconds,
             IF str.fraction = <<>> THEN 0 ELSE str.fraction[1],
             <<>>)

\* datetime.fromisoformat, after parse_datetime replaced a trailing "Z" by
\* "+00:00".
FromIsoFormat(str, offset) ==
    DateTime(str.seconds,
             IF str.fraction = <<>> THEN 0 ELSE str.fraction[1],
             IF str.suffix = "" THEN <<>>
             ELSE IF str.suffix = "Z" THEN <<0>> ELSE offset)

\* "x.isoformat() if x else None", then json.dump.
DateTimeToJson(opt) ==
    IF opt = <<>> THEN JsonNull
    ELSE [j |-> "string", v |-> IsoFormat(opt[1]), offset |-> IsoOffset(opt[1])]

\* json.load, then parse_datetime.
ParseDatetime(val) ==
    IF val.j # "string" THEN <<>> ELSE <<FromIsoFormat(val.v, val.offset)>>

\* json.dump and json.load of a str or None, a number, a bool, a dict.
OptionalToJson(opt) == IF opt = <<>> THEN JsonNull ELSE JsonString(opt[1])
OptionalFromJson(val) == IF val.j = "null" THEN <<>> ELSE <<val.v>>

\* dict.get(key, default) on the object json.load returned.
DictGet(data, key, default) == IF key \in DOMAIN data THEN data[key] ELSE default

\* LocalAccount.__init__: created_at or now, extra_data or {}.
LocalAccount(id, name, auth_method, provider, access_token, refresh_token, profile_arn, region, expires_at, created_at, updated_at, used_at, is_active, count, extra_data, clock) ==
    [id |-> id, name |-> name, auth_method |-> auth_method, provider |-> provider,
     access_token |-> access_token, refresh_token |-> refresh_token,
     profile_arn |-> profile_arn, region |-> region, expires_at |-> expires_at,
     created_at |-> IF created_at = <<>> THEN <<DateTime(clock, 0, <<0>>)>>
                    ELSE created_at,
     updated_at |-> updated_at, last_used_at |-> used_at,
     is_active |-> is_active, request_count |-> count, extra_data |-> extra_data]

\* LocalAccount.to_storage_dict, as json.dump writes it.
ToStorageDict(a) ==
    [id |-> JsonNumber(a.id),
     name |-> JsonString(a.name),
     auth_method |-> OptionalToJson(a.auth_method),
     provider |-> OptionalToJson(a.provider),
     access_token |-> OptionalToJson(a.access_token),
     refresh_token |-> OptionalToJson(a.refresh_token),
     profile_arn |-> OptionalToJson(a.profile_arn),
     region |-> OptionalToJson(a.region),
     expires_at |-> DateTimeToJson(a.expires_at),
     created_at |-> DateTimeToJson(a.created_at),
     updated_at |-> DateTimeToJson(a.updated_at),
     last_used_at |-> DateTimeToJson(a.last_used_at),
     is_active |-> JsonBool(a.is_active),
     request_count |-> JsonNumber(a.request_count),
     extra_data |-> JsonObject(a.extra_data)]

\* LocalAccount.from_storage_dict on what json.load returned.
FromStorageDict(data, clock) ==
    LocalAccount(DictGet(data, "id", JsonNumber(0)).v,
                 DictGet(data, "name", JsonString("Unknown")).v,
                 OptionalFromJson(DictGet(data, "auth_method", JsonNull)),
                 OptionalFromJson(DictGet(data, "provider", JsonNull)),
                 OptionalFromJson(DictGet(data, "access_token", JsonNull)),
                 OptionalFromJson(DictGet(data, "refresh_token", JsonNull)),
                 OptionalFromJson(DictGet(data, "profile_arn", JsonNull)),
                 OptionalFromJson(DictGet(data, "region", JsonString("us-east-1"))),
                 ParseDatetime(DictGet(data, "expires_at", JsonNull)),
                 ParseDatetime(DictGet(data, "created_at", JsonNull)),
                 ParseDatetime(DictGet(data, "updated_at", JsonNull)),
                 ParseDatetime(DictGet(data, "last_used_at", JsonNull)),
                 DictGet(data, "is_active", JsonBool(TRUE)).v,
                 DictGet(data, "request_count", JsonNumber(0)).v,
                 DictGet(data, "extra_data", JsonObject({})).v,
                 clock)

\* _save_to_file of a manager that holds one record, then _load_from_file
\* into a manager that was just built (_next_id 1): the file's next_id, put
\* past the id of every record read.
SaveAndLoad(manager, clock) ==
    LET data == [next_id |-> JsonNumber(manager.next_id),
                 accounts |-> <<ToStorageDict(manager.account)>>]
        account == FromStorageDict(data.accounts[1], clock)
        nid == DictGet(data, "next_id", JsonNumber(1)).v
    IN [next_id |-> IF account.id >= nid THEN account.id + 1 ELSE nid,
        account |-> account]

\* The file is written and a new manager loads it, some time later.
CallSaveAndLoad ==
    /\ ~read_back.called
    /\ read_back' = [called |-> TRUE, manager |-> SaveAndLoad(to_save, 900)]
    /\ UNCHANGED <<poolVars, recVars, refreshVars, oauthVars, bearerVars, transcoderVars,
                   usageVars, fileVars, lockVars, delayVars, loopVars, stopVars,
                   feedVars, to_save>>

\* The records that are written: what add_account and the updates can have
\* made of a record.
DateTimes ==
    {DateTime(100, 0, <<0>>), DateTime(100, 250000, <<330>>), DateTime(100, 0, <<>>)}

WrittenAccounts ==
    {LocalAccount(id, name, opt, <<"Google">>, opt, <<"rt">>, <<>>, <<"us-east-1">>,
                  expires_at, <<created_at>>, updated_at, <<>>, is_active, count,
                  extra_data, 0) :
       id \in {0, 7}, name \in {"", "a"}, opt \in {<<>>, <<"">>, <<"x">>},
       expires_at \in {<<>>} \cup {<<d>> : d \in DateTimes},
       created_at \in DateTimes,
       updated_at \in {<<>>, <<DateTime(100, 1, <<0>>)>>},
       is_active \in BOOLEAN, count \in {0, 2},
       extra_data \in {{}, {"clientId", "clientSecret"}}}

NothingRead ==
    [called |-> FALSE,
     manager |-> [next_id |-> 1,
                  account |-> LocalAccount(0, "", <<>>, <<>>, <<>>, <<>>, <<>>, <<>>, <<>>,
                                           <<>>, <<>>, <<>>, TRUE, 0, {}, 0)]]

TripParked ==
    /\ to_save = NothingRead.manager
    /\ read_back = NothingRead

\* ------------------------------------- start and stop of the refresh loops
MaxRefresherStarts == 2
MaxRequests == 2
RefresherTasks == 1 .. MaxRefresherStarts
RefreshEnds == {"ok", "Exception"}

\* A handler that catches everything a coroutine can raise.
CaughtAsBaseException(exc) == exc # "ok"

\* "except Exception": what refresh_token or refresh_account_token raised
\* is caught; CancelledError is a BaseException and is not.
CaughtAsException(exc) == exc = "Exception"

\* What the task finds when it resumes from an await that ended with end:
\* the CancelledError that cancel() asked for, if it did.
Resumed(task, end) == IF task.cancel THEN "CancelledError" ELSE end

\* A pool loop inside refresh_all_tokens resumes and begins the refresh
\* request of the next record that is due; end: how the await before it
\* ended.  An exception goes through refresh_all_tokens' "except Exception"
\* to the next record; one that is not caught leaves the sweep (SweepReturns).
SweepNextRequest(t, end) ==
    /\ loops[t].pc \in {"first sweep", "sweep"}
    /\ requested[t] < MaxRequests
    /\ LET exc == Resumed(loops[t], end)
       IN exc = "ok" \/ CaughtAsException(exc)
    /\ requested' = [requested EXCEPT ![t] = @ + 1]
    /\ UNCHANGED <<besideStopVars, loopVars, running, refresher_task, refreshers,
                   nrefresherstarts>>

NoRefresher == [pc |-> "absent", cancel |-> FALSE, requests |-> 0]

\* "while self._running:" and what follows up to asyncio.sleep(delay).
WhileHead(task, is_running) ==
    IF is_running THEN [task EXCEPT !.pc = "sleep"] ELSE [task EXCEPT !.pc = "done"]

\* "await self.refresh_token()" begins.
BeginRefresh(task, pc) == [task EXCEPT !.pc = pc, !.requests = @ + 1]

\* IdCTokenRefresher.start.
RefresherStart ==
    /\ nrefresherstarts < MaxRefresherStarts
    /\ IF running
       THEN UNCHANGED <<running, refresher_task, refreshers, nrefresherstarts>>
       ELSE /\ running' = TRUE
            /\ refresher_task' = nrefresherstarts + 1
            /\ refreshers' = [refreshers EXCEPT ![nrefresherstarts + 1].pc = "created"]
            /\ nrefresherstarts' = nrefresherstarts + 1
    /\ UNCHANGED <<besideStopVars, loopVars, requested>>

\* IdCTokenRefresher.stop.
RefresherStop ==
    /\ running' = FALSE
    /\ IF refresher_task # 0
       THEN /\ refreshers' = [refreshers EXCEPT ![refresher_task].cancel = TRUE]
            /\ refresher_task' = 0
       ELSE UNCHANGED <<refreshers, refresher_task>>
    /\ UNCHANGED <<besideStopVars, loopVars, requested, nrefresherstarts>>

\* _refresh_loop starts to run: the check on startup.  A task cancelled
\* before its first step never runs.
RefresherBegins(t, should_refresh) ==
    /\ refreshers[t].pc = "created"
    /\ should_refresh => refreshers[t].requests < MaxRequests
    /\ refreshers' = [refreshers EXCEPT ![t] =
         IF @.cancel THEN [@ EXCEPT !.pc = "done"]
         ELSE IF should_refresh THEN BeginRefresh(@, "initial refresh")
         ELSE WhileHead(@, running)]
    /\ UNCHANGED <<besideStopVars, loopVars, requested, running, refresher_task,
                   nrefresherstarts>>

\* "await self.refresh_token()" ends: the exception it raised is logged
\* (and, inside the loop, followed by a sleep of MIN_REFRESH_INTERVAL)
\* when "except Exception" catches it, and ends the task when not.
RefreshTokenReturns(t, end) ==
    /\ refreshers[t].pc \in {"initial refresh", "refresh"}
    /\ LET exc == Resumed(refreshers[t], end)
       IN refreshers' = [refreshers EXCEPT ![t] =
            IF exc = "ok" THEN WhileHead(@, running)
            ELSE IF ~CaughtAsException(exc) THEN [@ EXCEPT !.pc = "done"]
            ELSE IF @.pc = "initial refresh" THEN WhileHead(@, running)
            ELSE [@ EXCEPT !.pc = "retry sleep"]]
    /\ UNCHANGED <<besideStopVars, loopVars, requested, running, refresher_task,
                   nrefresherstarts>>

\* "await asyncio.sleep(delay)" ends; "if not self._running: break"; then
\* the refresh when _should_refresh() says so.
RefresherSleepReturns(t, should_refresh) ==
    /\ refreshers[t].pc = "sleep"
    /\ should_refresh => refreshers[t].requests < MaxRequests
    /\ refreshers' = [refreshers EXCEPT ![t] =
         IF @.cancel \/ ~running THEN [@ EXCEPT !.pc = "done"]
         ELSE IF should_refresh THEN BeginRefresh(@, "refresh")
         ELSE WhileHead(@, running)]
    /\ UNCHANGED <<besideStopVars, loopVars, requested, running, refresher_task,
                   nrefresherstarts>>

\* "await asyncio.sleep(self.MIN_REFRESH_INTERVAL)" after a failure ends.
RetrySleepReturns(t) ==
    /\ refreshers[t].pc = "retry sleep"
    /\ refreshers' = [refreshers EXCEPT ![t] =
         IF @.cancel THEN [@ EXCEPT !.pc = "done"] ELSE WhileHead(@, running)]
    /\ UNCHANGED <<besideStopVars, loopVars, requested, running, refresher_task,
                   nrefresherstarts>>

StopParked ==
    /\ requested = [t \in LoopTasks |-> 0]
    /\ running = FALSE
    /\ refresher_task = 0
    /\ refreshers = [t \in RefresherTasks |-> NoRefresher]
    /\ nrefresherstarts = 0

\* ------------------------------------------- AwsEventStreamParser.feed
\* A str is the sequence of its characters, bytes are the sequence of their
\* values: an ASCII byte is written as its character, "0xC3" "0xA9" are the
\* two bytes of U+00E9 in UTF-8.
Str(a, b, c, d, e, f, g) == SelectSeq(<<a, b, c, d, e, f, g>>, LAMBDA ch : ch # "")

\* '{"key":'
Pattern(key) == <<"{", "\"">> \o key \o <<"\"", ":">>

EVENT_PATTERNS ==
    <<[pattern |-> Pattern(Str("c", "o", "n", "t", "e", "n", "t")), type |-> "content"],
      [pattern |-> Pattern(Str("n", "a", "m", "e", "", "", "")), type |-> "tool_start"],
      [pattern |-> Pattern(Str("i", "n", "p", "u", "t", "", "")), type |-> "tool_input"],
      [pattern |-> Pattern(Str("s", "t", "o", "p", "", "", "")), type |-> "tool_stop"],
      [pattern |-> Pattern(Str("f", "o", "l", "l", "o", "w", "u")
                             \o Str("p", "P", "r", "o", "m", "p", "t")),
       type |-> "followup"],
      [pattern |-> Pattern(Str("u", "s", "a", "g", "e", "", "")), type |-> "usage"],
      [pattern |-> Pattern(Str("c", "o", "n", "t", "e", "x", "t")
                             \o Str("U", "s", "a", "g", "e", "", "")
                             \o Str("P", "e", "r", "c", "e", "n", "t")
                             \o Str("a", "g", "e", "", "", "", "")),
       type |-> "context_usage"]>>

\* chunk.decode('utf-8', errors='ignore'): a byte that is not part of a
\* complete character within the chunk is dropped.
RECURSIVE Decode(_)
Decode(chunk) ==
    IF chunk = <<>> THEN <<>>
    ELSE IF Head(chunk) = "0xC3"
    THEN IF Len(chunk) >= 2 /\ chunk[2] = "0xA9"
         THEN <<"U+00E9">> \o Decode(SubSeq(chunk, 3, Len(chunk)))
         ELSE Decode(Tail(chunk))
    ELSE IF Head(chunk) = "0xA9" THEN Decode(Tail(chunk))
    ELSE <<Head(chunk)>> \o Decode(Tail(chunk))

\* str.find(pattern): the first index at which pattern stands, else -1.
Find(str, pattern) ==
    LET at == {i \in 0 .. (Len(str) - Len(pattern)) :
                  SubSeq(str, i + 1, i + Len(pattern)) = pattern}
    IN IF at = {} THEN 0 - 1 ELSE CHOOSE i \in at : \A j \in at : i <= j

\* The "for pattern, event_type in self.EVENT_PATTERNS" loop from the k-th
\* pattern on: earliest_pos and earliest_type.
RECURSIVE EarliestPattern(_, _, _, _)
EarliestPattern(str, k, earliest_pos, earliest_type) ==
    IF k > Len(EVENT_PATTERNS) THEN [pos |-> earliest_pos, type |-> earliest_type]
    ELSE LET pos == Find(str, EVENT_PATTERNS[k].pattern)
         IN IF pos # 0 - 1 /\ (earliest_pos = 0 - 1 \/ pos < earliest_pos)
            THEN EarliestPattern(str, k + 1, pos, EVENT_PATTERNS[k].type)
            ELSE EarliestPattern(str, k + 1, earliest_pos, earliest_type)

JSONDecodeError == [ok |-> FALSE, kind |-> "", chars |-> <<>>]

\* json.loads of the text of an object with one key, whose value is a
\* string without escapes or true; anything else of the texts fed here does
\* not parse.  What is returned is the value.
JsonLoads(json_str) ==
    LET n == Len(json_str)
        colon == Find(json_str, <<"\"", ":">>) + 2
        value == SubSeq(json_str, colon + 1, n - 1)
        m == Len(value)
    IN IF n < 6 \/ json_str[1] # "{" \/ json_str[2] # "\"" \/ json_str[n] # "}" \/ colon < 4
       THEN JSONDecodeError
       ELSE IF value = <<"t", "r", "u", "e">>
       THEN [ok |-> TRUE, kind |-> "true", chars |-> <<>>]
       ELSE IF /\ m >= 2
               /\ value[1] = "\"" /\ value[m] = "\""
               /\ \A i \in 2 .. (m - 1) : value[i] \notin {"\"", "\\"}
       THEN [ok |-> TRUE, kind |-> "string", chars |-> SubSeq(value, 2, m - 1)]
       ELSE JSONDecodeError

\* What the handlers read from the parsed object: data.get('content', ''),
\* data.get('name', ''), data.get('input', ''), data.get('stop').
EventData(value, type) ==
    [type |-> type,
     data |-> IF type = "content" THEN value.chars ELSE <<>>,
     name |-> IF type = "tool_start" THEN value.chars ELSE <<>>,
     input |-> IF type = "tool_input" THEN value.chars ELSE <<>>,
     flag |-> type = "tool_stop" /\ value.kind = "true"]

\* The "while True" loop of feed on a buffer: what is left of the buffer,
\* the parser, the events.
RECURSIVE Drain(_, _, _)
Drain(buf, parser, events) ==
    LET hit == EarliestPattern(buf, 1, 0 - 1, "")
        json_end == FindMatchingBrace(buf, hit.pos).value
        json_str == SubSeq(buf, hit.pos + 1, json_end + 1)
        rest == SubSeq(buf, json_end + 2, Len(buf))
        value == JsonLoads(json_str)
        r == ProcessEventOf(parser, EventData(value, hit.type), 0)
    IN IF hit.pos = 0 - 1 \/ json_end = 0 - 1
       THEN [buffer |-> buf, parser |-> parser, events |-> events]
       ELSE IF ~value.ok THEN Drain(rest, parser, events)
       ELSE Drain(rest, r.p, events \o r.out)

\* feed(chunk) on a parser with buffer buf.
Feed(buf, parser, chunk) == Drain(buf \o Decode(chunk), parser, <<>>)

\* '{"key":"chars"}' and '{"stop":true}'
JsonText(key, chars) == Pattern(key) \o <<"\"">> \o chars \o <<"\"", "}">>
StopText == Pattern(Str("s", "t", "o", "p", "", "", "")) \o <<"t", "r", "u", "e", "}">>
ContentText(chars) == JsonText(Str("c", "o", "n", "t", "e", "n", "t"), chars)

\* X{"content":"a{b}"}Y{"content":"a{b}"}Z
ExampleStream ==
    <<"X">> \o ContentText(<<"a", "{", "b", "}">>) \o <<"Y">>
      \o ContentText(<<"a", "{", "b", "}">>) \o <<"Z">>

\* {"name":"f"}{"input":"1"}{"input":"1"}{"stop":true}
ToolStream ==
    JsonText(Str("n", "a", "m", "e", "", "", ""), <<"f">>)
      \o JsonText(Str("i", "n", "p", "u", "t", "", ""), <<"1">>)
      \o JsonText(Str("i", "n", "p", "u", "t", "", ""), <<"1">>) \o StopText

\* {"content":"a"}{"content":"b}"}{"content":"a"}
TextStream ==
    ContentText(<<"a">>) \o ContentText(<<"b", "}">>) \o ContentText(<<"a">>)

\* {"content":"caf\u00e9"} with the character as its two UTF-8 bytes.
AccentStream == ContentText(<<"c", "a", "f", "0xC3", "0xA9">>)

AsciiStreams == {ExampleStream, ToolStream, TextStream}
Streams == AsciiStreams \cup {AccentStream}

\* parser.feed(chunk) with the next n bytes of the stream.
CallFeed(n) ==
    /\ n >= 1
    /\ byte_pos + n <= Len(byte_stream)
    /\ LET r == Feed(buffer, feed_parser, SubSeq(byte_stream, byte_pos + 1, byte_pos + n))
       IN /\ buffer' = r.buffer
          /\ feed_parser' = r.parser
          /\ feed_events' = feed_events \o r.events
    /\ byte_pos' = byte_pos + n
    /\ UNCHANGED <<poolVars, recVars, refreshVars, oauthVars, bearerVars, transcoderVars,
                   fileVars, lockVars, delayVars, loopVars, usageVars, tripVars, stopVars,
                   byte_stream>>

FeedParked ==
    /\ byte_stream = <<>>
    /\ byte_pos = 0
    /\ buffer = <<>>
    /\ feed_parser = NewParser
    /\ feed_events = <<>>

CodecParked ==
    /\ TripParked
    /\ StopParked
    /\ FeedParked

\* No get_next_account call has been made.
UsageParked ==
    /\ last_used_at = [i \in AllIds |-> 0]
    /\ returns = [i \in AllIds |-> 0]
    /\ dropped = [i \in AllIds |-> 0]

LifecycleParked ==
    FileParked /\ LockParked /\ DelayParked /\ LoopParked /\ UsageParked /\ CodecParked


\* Nothing of the other subsystems has begun.
ExtParked == BearerParked /\ TranscoderParked /\ LifecycleParked

\* ---------------------------------------------------------------- pool spec
\* What load_accounts leaves at start for the records of the store: the
\* active ones in the rotation, each with its auth manager, cursor 0.
Loaded ==
    /\ request_count = [i \in AllIds |-> 0]
    /\ next_id = 13
    /\ account_ids = Ascending(active)
    /\ auth_managers = active
    /\ current_index = 0
    /\ usage_tasks = [i \in AllIds |-> 0]
    /\ pending = {}
    /\ caller_ret = [c \in Callers |-> Idle]
    /\ batch_pre = 0
    /\ batch_clean = TRUE
    /\ calls = <<>>
    /\ ncalls = 0
    /\ nops = 0
    /\ cache = [i \in AllIds |-> CreateAuthManager(acct[i])]
    /\ issued = [i \in AllIds |-> {<<acct[i].access_token, acct[i].expires_at>>}]

\* The records the administrative calls name: one of the store and the one
\* add_account creates (or, before that, an id the store does not hold).
PoolOpIds == {11, 13}

InitPool ==
    /\ backend \in {"db", "file"}
    /\ stored = InitialIds
    /\ active \in SUBSET stored
    /\ acct = [i \in AllIds |-> NewAccount]
    /\ Loaded
    /\ RefreshParked
    /\ wait_closed_waits = FALSE
    /\ OAuthParked
    /\ ExtParked

NextPool ==
    \/ \E c \in Callers : GetNextAccount(c)
    \/ CallersReturn
    \/ AddAccountFile
    \/ AddAccountCommit
    \/ \E id \in PoolOpIds : RemoveAccountFile(id)
    \/ \E id \in PoolOpIds : RemoveAccountCommit(id)
    \/ \E id \in PoolOpIds, a \in BOOLEAN : UpdateAccountFile(id, a)
    \/ \E id \in PoolOpIds, a \in BOOLEAN : UpdateAccountCommit(id, a)
    \/ \E p \in pending : ApplyPending(p)

SpecPool == InitPool /\ [][NextPool]_vars

\* ------------------------------------------------------ administration spec
\* One caller of get_next_account at a time, while records are added,
\* removed, switched off and on and the pool is loaded again.
NextPoolAdmin ==
    \/ GetNextAccount(1)
    \/ CallersReturn
    \/ AddAccountFile
    \/ AddAccountCommit
    \/ \E id \in AllIds : RemoveAccountFile(id)
    \/ \E id \in AllIds : RemoveAccountCommit(id)
    \/ \E id \in AllIds, a \in BOOLEAN : UpdateAccountFile(id, a)
    \/ \E id \in AllIds, a \in BOOLEAN : UpdateAccountCommit(id, a)
    \/ LoadAccountsFile
    \/ LoadAccountsSelect
    \/ \E p \in pending : ApplyPending(p)

SpecPoolAdmin == InitPool /\ [][NextPoolAdmin]_vars

\* Three active records, ids 10, 11 and 12, in either backend.
InitPoolUsage ==
    /\ backend \in {"db", "file"}
    /\ stored = InitialIds
    /\ active = stored
    /\ acct = [i \in AllIds |-> NewAccount]
    /\ Loaded
    /\ RefreshParked
    /\ wait_closed_waits = FALSE
    /\ OAuthParked
    /\ ExtParked

\* Calls of get_next_account one after the other, the usage tasks they
\* spawn, the removal of record 12, and the clock.
NextPoolUsage ==
    \/ GetNextAccount(1)
    \/ CallersReturn
    \/ RemoveAccountFile(12)
    \/ RemoveAccountCommit(12)
    \/ \E p \in pending : ApplyPending(p)
    \/ \E id \in AllIds, ok \in BOOLEAN : UpdateAccountUsage(id, ok)
    \/ \E d \in TickSteps : Tick(d)

SpecPoolUsage == InitPoolUsage /\ [][NextPoolUsage]_vars

\* The event loop runs every task that was created.
SpecPoolUsageFair ==
    /\ SpecPoolUsage
    /\ \A id \in AllIds : WF_vars(\E ok \in BOOLEAN : UpdateAccountUsage(id, ok))

\* ------------------------------------------------------------ dispatch spec
\* One refresh_account_token call on a record with any combination of auth
\* method, client credentials and refresh token, or on an id not in the store.
Methods == {"social", "builder-id", "IdC"}
RefreshIds == {10, 11}

InitDispatch ==
    /\ backend \in {"db", "file"}
    /\ stored = RefreshIds
    /\ active = stored
    /\ acct \in {[i \in AllIds |->
                    IF i = 10 THEN Account(m, c, s, r, 420)
                    ELSE IF i = 11 THEN Account("IdC", TRUE, TRUE, 1, 1800)
                    ELSE NewAccount] :
                 m \in Methods, c \in BOOLEAN, s \in BOOLEAN, r \in {0, 1}}
    /\ Loaded
    /\ RefreshParked
    /\ wait_closed_waits = FALSE
    /\ OAuthParked
    /\ ExtParked

NextDispatch ==
    \/ \E id \in {10, 12} : RefreshAccountTokenHandler("m1", id)
    \/ DbSelect("m1")
    \/ \E resp \in Responses : HttpReply("m1", resp)

SpecDispatch == InitDispatch /\ [][NextDispatch]_vars

\* ------------------------------------------------------------- refresh spec
\* Manual refreshes, by two handlers at a time, of a social record (10) and
\* a device-code record (11), while the clock runs and the social record is
\* removed or switched off and on.
InitRefresh ==
    /\ backend \in {"db", "file"}
    /\ stored = RefreshIds
    /\ active = stored
    /\ acct = [i \in AllIds |->
                 IF i = 10 THEN Account("social", FALSE, FALSE, 1, 420)
                 ELSE IF i = 11 THEN Account("IdC", TRUE, TRUE, 1, 1800)
                 ELSE NewAccount]
    /\ Loaded
    /\ RefreshParked
    /\ wait_closed_waits = FALSE
    /\ OAuthParked
    /\ ExtParked

NextRefresh ==
    \/ \E t \in Manual, id \in RefreshIds : RefreshAccountTokenHandler(t, id)
    \/ \E t \in Manual : DbSelect(t)
    \/ \E t \in Manual, resp \in RefreshResponses : HttpReply(t, resp)
    \/ \E d \in TickSteps : Tick(d)
    \/ RemoveAccountFile(10)
    \/ \E a \in BOOLEAN : UpdateAccountFile(10, a)

SpecRefresh == InitRefresh /\ [][NextRefresh]_vars

\* ------------------------------------------------------------ rotation spec
\* Manual refreshes of the social record alone, by two handlers at a time,
\* while it is switched off and on or removed.
NextRotation ==
    \/ \E t \in Manual : RefreshAccountTokenHandler(t, 10)
    \/ \E t \in Manual : DbSelect(t)
    \/ \E t \in Manual, resp \in RefreshResponses : HttpReply(t, resp)
    \/ RemoveAccountFile(10)
    \/ \E a \in BOOLEAN : UpdateAccountFile(10, a)

SpecRotation == InitRefresh /\ [][NextRotation]_vars

\* --------------------------------------------------------------- sweep spec
\* refresh_all_tokens over three records: a social one, a device-code one
\* and one that has neither client credentials nor the social method.
InitSweep ==
    /\ backend \in {"db", "file"}
    /\ stored = InitialIds
    /\ active \in SUBSET stored
    /\ acct \in {[i \in AllIds |->
                    IF i = 10 THEN Account("social", FALSE, FALSE, 1, e10)
                    ELSE IF i = 11 THEN Account("IdC", TRUE, TRUE, 1, e11)
                    ELSE IF i = 12 THEN Account("builder-id", FALSE, FALSE, 1, 420)
                    ELSE NewAccount] :
                 e10 \in {NoExpiry, 420, 1800}, e11 \in {600, 601}}
    /\ Loaded
    /\ RefreshParked
    /\ wait_closed_waits = FALSE
    /\ OAuthParked
    /\ ExtParked

NextSweep ==
    \/ \E force \in BOOLEAN : RefreshAllTokens(force)
    \/ DbSelect("sweep")
    \/ \E resp \in Responses : HttpReply("sweep", resp)
    \/ \E d \in TickSteps : Tick(d)

SpecSweep == InitSweep /\ [][NextSweep]_vars

\* --------------------------------------------------------------- OAuth spec
\* Two web handlers call the manager, browsers' callbacks arrive at the
\* listening servers, the upstream answers; on an interpreter whose
\* wait_closed returns at once (up to 3.11) or waits for the connections.
InitOAuth ==
    /\ backend = "file"
    /\ stored = InitialIds
    /\ active = stored
    /\ acct = [i \in AllIds |-> NewAccount]
    /\ Loaded
    /\ RefreshParked
    /\ wait_closed_waits \in BOOLEAN
    /\ OAuthParked
    /\ ExtParked

NextOAuth ==
    \/ \E h \in Handlers : StartSocialAuth(h)
    \/ \E h \in Handlers : StartServerDone(h)
    \/ \E h \in Handlers : StartBuilderIdAuth(h)
    \/ \E h \in Handlers, ok \in BOOLEAN : RegisterReply(h, ok)
    \/ \E h \in Handlers, ok \in BOOLEAN : DeviceAuthReply(h, ok)
    \/ \E h \in Handlers : CancelAccountAuth(h)
    \/ \E h \in Handlers : CancelWaitClosedDone(h)
    \/ \E h \in Handlers : CancelAwaitTaskDone(h)
    \/ \E h \in Handlers : WaitForAuth(h)
    \/ \E h \in Handlers : WaitCallbackDone(h)
    \/ \E h \in Handlers : WaitTaskDone(h)
    \/ \E h \in Handlers : CompleteAccountAuth(h)
    \/ \E c \in ConnIds, v \in FlowIds, req \in Callbacks : HandleConnection(c, v, req)
    \/ \E c \in ConnIds, ok \in BOOLEAN : ExchangeReply(c, ok)
    \/ \E p \in FlowIds, answer \in PollAnswers : PollReply(p, answer)
    \/ \E p \in FlowIds : PollWake(p)

SpecOAuth == InitOAuth /\ [][NextOAuth]_vars

\* ------------------------------------------------------------ callback spec
\* One social flow has been started (flow 1, listening); the first connection
\* brings any request, further ones a browser's callback, and a handler waits
\* for the flow's outcome.
InitCallback ==
    /\ backend = "file"
    /\ stored = InitialIds
    /\ active = stored
    /\ acct = [i \in AllIds |-> NewAccount]
    /\ Loaded
    /\ RefreshParked
    /\ wait_closed_waits \in BOOLEAN
    /\ poll_interval = DefaultPollInterval
    /\ auth_timeout = MaxAttempts * DefaultPollInterval
    /\ om = [active_server |-> 1, active_polling_task |-> 0,
             current_auth |-> [method |-> "social", flow |-> 1]]
    /\ flows = [f \in FlowIds |->
                  IF f = 1 THEN [NewServer(callback_port_start) EXCEPT
                                     !.has_server = TRUE, !.listening = TRUE]
                  ELSE NoFlow]
    /\ hs = [h \in Handlers |-> IdleHandler("")]
    /\ conns = [c \in ConnIds |-> IdleConn]
    /\ saved = <<>>
    /\ cancelled = {}
    /\ nflows = 1
    /\ nhops = 0
    /\ ExtParked

NextCallback ==
    \/ \E c \in ConnIds :
          \E req \in IF c = 1 THEN Requests ELSE Callbacks : HandleConnection(c, 1, req)
    \/ \E c \in ConnIds, ok \in BOOLEAN : ExchangeReply(c, ok)
    \/ WaitForAuth("h1")
    \/ WaitCallbackDone("h1")
    \/ CancelWaitClosedDone("h1")
    \/ CompleteAccountAuth("h1")

SpecCallback == InitCallback /\ [][NextCallback]_vars

\* -------------------------------------------------------------- poller spec
\* A device-code flow has been started (flow 1, its task at its first POST),
\* for several settings of auth_timeout and poll_interval; the upstream
\* answers the polls, one handler waits for the outcome, one may cancel.
AuthTimeouts == {12, 120}
PollIntervals == {5, 7}

InitPoller ==
    /\ backend = "file"
    /\ stored = InitialIds
    /\ active = stored
    /\ acct = [i \in AllIds |-> NewAccount]
    /\ Loaded
    /\ RefreshParked
    /\ wait_closed_waits = FALSE
    /\ auth_timeout \in AuthTimeouts
    /\ poll_interval \in PollIntervals
    /\ om = [active_server |-> 0, active_polling_task |-> 1,
             current_auth |-> [method |-> "builder-id", flow |-> 1]]
    /\ flows = [f \in FlowIds |-> IF f = 1 THEN NewPoller ELSE NoFlow]
    /\ hs = [h \in Handlers |-> IdleHandler("")]
    /\ conns = [c \in ConnIds |-> IdleConn]
    /\ saved = <<>>
    /\ cancelled = {}
    /\ nflows = 1
    /\ nhops = 0
    /\ ExtParked

NextPoller ==
    \/ \E answer \in PollAnswers : PollReply(1, answer)
    \/ PollWake(1)
    \/ WaitForAuth("h1")
    \/ WaitTaskDone("h1")
    \/ CompleteAccountAuth("h1")
    \/ CancelAccountAuth("h2")
    \/ CancelAwaitTaskDone("h2")

SpecPoller == InitPoller /\ [][NextPoller]_vars

\* -------------------------------------------------------------- bearer spec
\* Requests with every kind of Authorization header are authenticated in
\* per-request mode while the clock moves on.
InitBearer ==
    /\ backend = "file"
    /\ stored = InitialIds
    /\ active = stored
    /\ acct = [i \in AllIds |-> NewAccount]
    /\ Loaded
    /\ RefreshParked
    /\ wait_closed_waits = FALSE
    /\ OAuthParked
    /\ ExtParked

NextBearer ==
    \/ \E header \in Headers : VerifyApiKeyOrToken(header)
    \/ \E r \in BearerReqs, ok \in BOOLEAN : AccessTokenReply(r, ok)
    \/ \E header \in Headers, ok \in BOOLEAN : GetRequestAuthManager(header, ok)
    \/ \E d \in BearerSteps : BearerTick(d)

SpecBearer == InitBearer /\ [][NextBearer]_vars

\* -------------------------------------------------------------- stream spec
\* Streaming chat completions, each over its own upstream response.
InitStream ==
    /\ backend = "file"
    /\ stored = InitialIds
    /\ active = stored
    /\ acct = [i \in AllIds |-> NewAccount]
    /\ Loaded
    /\ RefreshParked
    /\ wait_closed_waits = FALSE
    /\ OAuthParked
    /\ ExtParked

NextStream ==
    \/ \E s \in StreamIds, status \in UpstreamStatuses : ChatCompletions(s, status)
    \/ \E s \in StreamIds, ev \in UpstreamEvents : UpstreamEvent(s, ev)
    \/ \E s \in StreamIds : ClientDisconnect(s)
    \/ \E s \in StreamIds : RequestCancelled(s)

SpecStream == InitStream /\ [][NextStream]_vars

\* -------------------------------------------------------------- parser spec
\* One parser is given every sequence of events, then asked for the calls.
NextParser ==
    \/ \E data \in Events : ProcessEvent(data)
    \/ GetToolCalls

SpecParser == InitStream /\ [][NextParser]_vars

\* --------------------------------------------------------------- brace spec
\* find_matching_brace on every text and position.
InitBrace ==
    /\ backend = "file"
    /\ stored = InitialIds
    /\ active = stored
    /\ acct = [i \in AllIds |-> NewAccount]
    /\ Loaded
    /\ RefreshParked
    /\ wait_closed_waits = FALSE
    /\ OAuthParked
    /\ BearerParked
    /\ StreamParked
    /\ ParserParked
    /\ LifecycleParked
    /\ text \in Texts
    /\ start_pos \in Positions
    /\ brace_at = NotCalled

NextBrace == CallFindMatchingBrace

SpecBrace == InitBrace /\ [][NextBrace]_vars

\* ------------------------------------------------------- file backend spec
\* What every subsystem but the file backend, the auth manager's lock, the
\* refresher and the refresh task is left as.
RestParked ==
    /\ backend = "file"
    /\ stored = InitialIds
    /\ active = stored
    /\ acct = [i \in AllIds |-> NewAccount]
    /\ Loaded
    /\ RefreshParked
    /\ wait_closed_waits = FALSE
    /\ OAuthParked
    /\ BearerParked
    /\ TranscoderParked

\* The manager after load_accounts of a file with two records and, maybe,
\* one get_next_account call.
InitFile ==
    /\ RestParked
    /\ accounts = (10 :> 0) @@ (11 :> 0)
    /\ mem_next_id = 12
    /\ storage_file = Document(12, accounts)
    /\ nfileops = 0
    /\ mem_account_ids = <<10, 11>>
    /\ mem_current_index \in {0, 1}
    /\ mem_ret = Idle
    /\ LockParked
    /\ DelayParked
    /\ LoopParked
    /\ UsageParked
    /\ CodecParked

NextFile ==
    \/ FileLoadAccounts
    \/ \E outcome \in WriteOutcomes : FileAddAccount(outcome)
    \/ \E id \in DOMAIN accounts, outcome \in WriteOutcomes : FileRemoveAccount(id, outcome)
    \/ \E id \in DOMAIN accounts, outcome \in WriteOutcomes : FileUpdateAccount(id, outcome)
    \/ \E id \in DOMAIN accounts, outcome \in WriteOutcomes :
         FileUpdateAccountUsage(id, outcome)
    \/ FileGetNextAccount

SpecFile == InitFile /\ [][NextFile]_vars

\* ------------------------------------------------------- round trip spec
InitTrip ==
    /\ RestParked
    /\ FileParked
    /\ LockParked
    /\ DelayParked
    /\ LoopParked
    /\ UsageParked
    /\ StopParked
    /\ FeedParked
    /\ to_save \in {[next_id |-> a.id + k, account |-> a] :
                      a \in WrittenAccounts, k \in {1, 3}}
    /\ read_back = NothingRead

NextTrip == CallSaveAndLoad

SpecTrip == InitTrip /\ [][NextTrip]_vars

\* ------------------------------------------------------------ lock spec
\* Callers of get_access_token on one manager whose token is missing,
\* expiring or valid.
InitLock ==
    /\ RestParked
    /\ FileParked
    /\ am \in {[access_token |-> 0, expiring |-> TRUE, lock |-> 0],
               [access_token |-> OldToken, expiring |-> TRUE, lock |-> 0],
               [access_token |-> OldToken, expiring |-> FALSE, lock |-> 0]}
    /\ gat = [c \in Getters |-> NotAsked]
    /\ refresh_call_count = 0
    /\ DelayParked
    /\ LoopParked
    /\ UsageParked
    /\ CodecParked

NextLock ==
    \/ \E c \in Getters : GetAccessToken(c)
    \/ \E c \in Getters : LockAcquired(c)
    \/ \E c \in Getters, ok \in BOOLEAN : RefreshTokenRequestReturns(c, ok)

SpecLock == InitLock /\ [][NextLock]_vars

\* ------------------------------------------------------------ delay spec
\* _calculate_next_refresh_delay on every time to expiry.
InitDelay ==
    /\ RestParked
    /\ FileParked
    /\ LockParked
    /\ seconds_until_expiry \in Ttls
    /\ refresh_interval \in RefreshIntervals
    /\ next_delay = NotCalled
    /\ LoopParked
    /\ UsageParked
    /\ CodecParked

NextDelay == CallCalculateNextRefreshDelay

SpecDelay == InitDelay /\ [][NextDelay]_vars

\* ------------------------------------------------------------- loop spec
InitLoop ==
    /\ RestParked
    /\ FileParked
    /\ LockParked
    /\ DelayParked
    /\ LoopParked
    /\ UsageParked
    /\ CodecParked

NextLoop ==
    \/ StartAutoRefresh
    \/ StopAutoRefresh
    \/ \E t \in LoopTasks : LoopBegins(t)
    \/ \E t \in LoopTasks, end \in SweepEnds : SweepReturns(t, end)
    \/ \E d \in LoopSteps : LoopTick(d)
    \/ \E t \in LoopTasks : SleepReturns(t)

SpecLoop == InitLoop /\ [][NextLoop]_vars

\* --------------------------------------------------------------- feed spec
\* A new parser is fed a stream in chunks of every length.
InitFeed ==
    /\ RestParked
    /\ FileParked
    /\ LockParked
    /\ DelayParked
    /\ LoopParked
    /\ UsageParked
    /\ TripParked
    /\ StopParked
    /\ byte_stream \in Streams
    /\ byte_pos = 0
    /\ buffer = <<>>
    /\ feed_parser = NewParser
    /\ feed_events = <<>>

NextFeed == \E n \in 1 .. Len(byte_stream) : CallFeed(n)

SpecFeed == InitFeed /\ [][NextFeed]_vars

\* The pool's loop or the single-credential refresher, started and stopped
\* in any order while its tasks run.  The two managers are objects with no
\* state in common: a behaviour follows the one that is started first.
NextStartStop ==
    \/ (nrefresherstarts = 0 /\ StartAutoRefresh)
    \/ StopAutoRefresh
    \/ \E t \in LoopTasks : LoopBegins(t)
    \/ \E t \in LoopTasks, end \in RefreshEnds : SweepNextRequest(t, end)
    \/ \E t \in LoopTasks, end \in {"refreshed", "exception"} : SweepReturns(t, end)
    \/ LoopTick(REFRESH_INTERVAL)
    \/ \E t \in LoopTasks : SleepReturns(t)
    \/ (nloopstarts = 0 /\ RefresherStart)
    \/ RefresherStop
    \/ \E t \in RefresherTasks, should_refresh \in BOOLEAN : RefresherBegins(t, should_refresh)
    \/ \E t \in RefresherTasks, end \in RefreshEnds : RefreshTokenReturns(t, end)
    \/ \E t \in RefresherTasks, should_refresh \in BOOLEAN :
         RefresherSleepReturns(t, should_refresh)
    \/ \E t \in RefresherTasks : RetrySleepReturns(t)

SpecStartStop == InitLoop /\ [][NextStartStop]_vars

\* The event loop runs every task that can run, timers fire, and a sweep
\* ends: each of its requests has a timeout.
SpecLoopFair ==
    /\ SpecLoop
    /\ \A t \in LoopTasks : WF_vars(LoopBegins(t))
    /\ \A t \in LoopTasks : WF_vars(\E end \in SweepEnds : SweepReturns(t, end))
    /\ WF_vars(\E d \in LoopSteps : LoopTick(d))
    /\ \A t \in LoopTasks : WF_vars(SleepReturns(t))

\* =================================================================== claims
\* C1: while the rotation list is left alone, every get_next_account call
\* returns the record under the cursor and moves the cursor one step forward
\* modulo the list length, so the calls walk the list in order (ids 10, 11, 12
\* from cursor 0 give 10, 11, 12, 10, 11); on an empty list the call returns
\* None and the cursor stays where it is.
C1_RoundRobin ==
    /\ \A i \in 1 .. Len(calls) :
          LET c == calls[i]
              n == Len(account_ids)
          IN IF n = 0
             THEN c.ret = None /\ c.post = c.pre
             ELSE /\ c.pre < n
                  /\ c.ret = Got(account_ids[c.pre + 1])
                  /\ c.post = (c.pre + 1) % n
                  /\ (i < Len(calls) => calls[i + 1].pre = c.post)
                  /\ (i = Len(calls) => current_index = c.post)
    /\ (account_ids = <<10, 11, 12>> /\ Len(calls) >= 1 /\ calls[1].pre = 0)
          => \A i \in 1 .. Len(calls) : calls[i].ret = Got(10 + ((i - 1) % 3))

\* Five calls in a row on the list 10, 11, 12, starting at its head.
C1_Witness ==
    /\ account_ids = <<10, 11, 12>>
    /\ Len(calls) = 5
    /\ calls[1].pre = 0
    /\ calls[5].ret = Got(11)

\* C2: K callers of get_next_account that run with no other pool operation in
\* between, on a list of N >= K records, get the K records that start at the
\* cursor the batch found, each record going to one caller only, whatever the
\* order in which the callers ran.
C2_ConcurrentCallers ==
    LET done == {c \in Callers : caller_ret[c] # Idle}
        K == Cardinality(done)
        N == Len(account_ids)
    IN (batch_clean /\ K >= 1 /\ N >= K) =>
         /\ \A c \in done : caller_ret[c].kind = "account"
         /\ {caller_ret[c].id : c \in done}
              = {account_ids[((batch_pre + i) % N) + 1] : i \in 0 .. (K - 1)}
         /\ \A c, d \in done : c # d => caller_ret[c] # caller_ret[d]

\* Every caller of a batch has been served, the batch starting in mid-list.
C2_Witness ==
    /\ batch_clean
    /\ batch_pre > 0
    /\ \A c \in Callers : caller_ret[c].kind = "account"
    /\ Len(account_ids) >= Cardinality(Callers)

\* C3: a refresh of a stored record that holds a refresh token issues exactly
\* one request to the SSO-OIDC token endpoint when the record carries both
\* client_id and client_secret, whatever its auth method; else exactly one
\* request to the Kiro auth service when its method is social; else it fails
\* for missing client credentials without any request; in either backend.
C3_Dispatch ==
    \A t \in Tasks :
        (rt[t].pc \in {"http", "done"} /\ rt[t].found /\ rt[t].seen.refresh_token # 0) =>
            LET a == rt[t].seen
            IN IF a.client_id /\ a.client_secret THEN rt[t].sent = <<"oidc">>
               ELSE IF a.auth_method = "social" THEN rt[t].sent = <<"kiro">>
               ELSE /\ rt[t].sent = <<>>
                    /\ rt[t].result = "Missing client credentials. Please re-authenticate."

\* C4: no two refreshes of the same record have their upstream request in
\* flight at the same time.
C4_OneRefreshInFlight ==
    \A id \in AllIds :
        Cardinality({t \in Tasks : rt[t].pc = "http" /\ rt[t].id = id}) <= 1

\* C5 (as stated): across the successful refreshes of a record, in the order
\* in which they were stored, expires_at never moves backward.
C5_NeverBackward ==
    \A id \in AllIds : \A i, j \in 1 .. Len(hist[id]) :
        i < j => hist[id][i].expires_at <= hist[id][j].expires_at

\* C5 (amended): every successful refresh stores expires_at = the time its
\* response is processed + the response's expiresIn, and that is the value
\* the record then holds; so between two successful refreshes of a record,
\* overlapping or not, expires_at does not move backward when the later
\* response's expiresIn is not smaller than the earlier one's.
C5_ExpiresAtFromResponse ==
    \A id \in AllIds :
        /\ \A i \in 1 .. Len(hist[id]) :
              /\ hist[id][i].expires_at = hist[id][i].at + hist[id][i].expires_in
              /\ \A j \in 1 .. (i - 1) :
                    hist[id][j].expires_in <= hist[id][i].expires_in
                        => hist[id][j].expires_at <= hist[id][i].expires_at
        /\ (id \in stored /\ Len(hist[id]) > 0)
              => acct[id].expires_at = hist[id][Len(hist[id])].expires_at

\* Two refreshes of record 10 overlapped and both succeeded, at different times.
C5_Witness ==
    /\ Len(hist[10]) = 2
    /\ hist[10][1].at < hist[10][2].at
    /\ hist[10][1].expires_in <= hist[10][2].expires_in
    /\ rt["m1"].id = 10 /\ rt["m2"].id = 10

\* C6: in every state, also while refreshes are suspended, the access token
\* and the expiry a reader finds in the store, or in the cached auth manager,
\* of a record are the token and the expiry of one and the same response (or
\* the pair the record was created with).
C6_TokenWithItsExpiry ==
    /\ \A id \in stored : <<acct[id].access_token, acct[id].expires_at>> \in issued[id]
    /\ \A id \in auth_managers :
          <<cache[id].access_token, cache[id].expires_at>> \in issued[id]

\* A refreshed record is read while another refresh of it is in flight.
C6_Witness ==
    \E id \in stored \cap auth_managers, t \in Tasks :
        /\ rt[t].pc = "http" /\ rt[t].id = id
        /\ acct[id].access_token > 1
        /\ cache[id].access_token = acct[id].access_token

\* C7 (as stated): refresh_all_tokens calls refresh_account_token exactly for
\* the active records it is forced to refresh or whose expires_at - now <= 600.
C7_OnlyByTtl ==
    \A i \in 1 .. Len(sw.evals) :
        LET e == sw.evals[i]
        IN e.called <=> (e.id \in active
                         /\ (sw.force \/ (e.expires_at # NoExpiry
                                          /\ e.expires_at - e.at <= 600)))

\* C7 (amended): refresh_all_tokens visits every active record once and
\* calls refresh_account_token exactly for the active records it is forced
\* to refresh, or that have no expires_at, or whose expires_at - now <= 600;
\* the integer it returns is the number of those calls that succeeded.
C7_SweepSelection ==
    /\ \A i \in 1 .. Len(sw.evals) :
          LET e == sw.evals[i]
          IN /\ e.called <=> (e.id \in active
                              /\ (sw.force \/ e.expires_at = NoExpiry
                                           \/ e.expires_at - e.at <= 600))
             /\ \A j \in 1 .. (i - 1) : sw.evals[j].id # e.id
    /\ sw.pc = "done" =>
          /\ \A id \in active : \E i \in 1 .. Len(sw.evals) : sw.evals[i].id = id
          /\ sw.refreshed = Cardinality({i \in 1 .. Len(sw.evals) :
                                            sw.evals[i].called
                                            /\ sw.evals[i].result = Success})

\* An unforced sweep has returned: it refreshed the record with 10 minutes
\* left, called for the one with 7 minutes left, passed the one with 30.
C7_Witness ==
    /\ sw.pc = "done" /\ ~sw.force /\ sw.refreshed = 1
    /\ \E i \in 1 .. Len(sw.evals) :
          sw.evals[i].expires_at - sw.evals[i].at = 1800 /\ ~sw.evals[i].called
    /\ \E i \in 1 .. Len(sw.evals) :
          sw.evals[i].expires_at - sw.evals[i].at = 420 /\ sw.evals[i].called
    /\ \E i \in 1 .. Len(sw.evals) :
          sw.evals[i].expires_at - sw.evals[i].at = 600 /\ sw.evals[i].result = Success

\* C8: at most one flow of the manager is active -- the callback server the
\* manager refers to is never listening while the polling task it refers to
\* is still live, whatever start, cancel and wait calls overlapped before.
C8_AtMostOneActiveFlow ==
    ~(/\ om.active_server # 0
      /\ flows[om.active_server].listening
      /\ om.active_polling_task # 0
      /\ Live(flows[om.active_polling_task]))

\* Connection c brought a GET for the callback path whose state is not the
\* one its server expects, and has been handled.
StateMismatch(c) ==
    /\ conns[c].pc # "idle"
    /\ conns[c].req.method = "GET"
    /\ StartsWithCallback(conns[c].req.path)
    /\ Param(conns[c].req.query, "state") # conns[c].srv

\* C9: the code-for-token exchange is issued only for a GET on the callback
\* path that has no error parameter, the expected state and a code; a
\* callback with another state is answered 400, fails the flow (the waiting
\* call does not return a result), is never exchanged and stores nothing.
C9_ExchangeOnlyForValidCallback ==
    /\ \A c \in ConnIds :
          conns[c].exchanged =>
             /\ conns[c].req.method = "GET"
             /\ StartsWithCallback(conns[c].req.path)
             /\ ~HasParam(conns[c].req.query, "error")
             /\ Param(conns[c].req.query, "state") = conns[c].srv
             /\ Param(conns[c].req.query, "code") # 0
    /\ \A c \in ConnIds :
          StateMismatch(c) =>
             /\ conns[c].status = 400
             /\ ~conns[c].exchanged
             /\ flows[conns[c].srv].error # ""
             /\ flows[conns[c].srv].done
             /\ \A i \in 1 .. Len(saved) : saved[i].conn # c
             /\ \A h \in Handlers : hs[h].pc = "idle" => hs[h].out # "ok"

\* A callback with a code but the wrong state has been answered, and the
\* call waiting for the flow has ended.
C9_Witness ==
    \E c \in ConnIds :
       /\ StateMismatch(c)
       /\ conns[c].pc = "done"
       /\ ~HasParam(conns[c].req.query, "error")
       /\ Param(conns[c].req.query, "code") # 0
       /\ hs["h1"].pc = "idle" /\ hs["h1"].out = "ValueError"

\* C10: no credential is saved by a flow after a cancel_auth call that
\* dropped it (on its own or inside a start of a new flow) has returned.
C10_NothingSavedAfterCancel ==
    \A i \in 1 .. Len(saved) : ~saved[i].after_cancel

\* C11: every answer to a poll is classified as stated and nothing else
\* happens -- accessToken ends the task with the result; authorization_pending
\* (and a transport failure) is followed by a sleep of poll_interval and
\* slow_down by one of poll_interval + 5, after which the task polls again
\* unless its attempts are used up; expired_token, access_denied and any
\* other error end the task with the failure of that error; a task that has
\* ended sends no further poll and changes no more.
C11_PollClassification ==
    [][\A p \in FlowIds :
         LET f == flows[p]
             g == flows'[p]
         IN /\ (f.st = "post" /\ g.st \notin {"post", "cancelled"}) =>
                 /\ g.attempts = f.attempts
                 /\ CASE g.answer = "accessToken" ->
                            g.st = "done" /\ g.result /\ g.slept = f.slept
                      [] g.answer \in {"authorization_pending", "HTTPError"} ->
                            /\ g.st = "sleep" /\ g.wait = poll_interval
                            /\ g.slept = f.slept + poll_interval
                      [] g.answer = "slow_down" ->
                            /\ g.st = "sleep" /\ g.wait = poll_interval + 5
                            /\ g.slept = f.slept + poll_interval + 5
                      [] g.answer = "expired_token" ->
                            g.st = "failed" /\ g.error = "Device code expired"
                      [] g.answer = "access_denied" ->
                            g.st = "failed" /\ g.error = "User denied authorization"
                      [] OTHER ->
                            g.st = "failed" /\ g.error = "Authorization failed"
            /\ (f.st = "sleep" /\ g # f) =>
                 \/ g = [f EXCEPT !.st = "post", !.attempts = @ + 1]
                 \/ g = [f EXCEPT !.st = "failed", !.error = "Authorization timeout"]
                 \/ g = [f EXCEPT !.st = "cancelled"]
            /\ (f.kind = "builder-id" /\ f.st \in {"done", "failed", "cancelled"}) =>
                 [g EXCEPT !.account = 0] = [f EXCEPT !.account = 0]]_vars

\* A slow_down answer to a second or later poll has put the task to sleep
\* for poll_interval + 5 seconds.
C11_Witness ==
    \E p \in FlowIds :
       /\ flows[p].st = "sleep"
       /\ flows[p].answer = "slow_down"
       /\ flows[p].attempts >= 2
       /\ flows[p].wait = poll_interval + 5

\* C12: a polling task that gives up with the timeout failure has slept no
\* more than auth_timeout seconds in total.
C12_TimeoutWithinBudget ==
    \A p \in FlowIds :
       (flows[p].st = "failed" /\ flows[p].error = "Authorization timeout") =>
          flows[p].slept <= auth_timeout

\* C13: the credential a device-code flow saves, and the record the web
\* handler adds to the store from the flow's result, is labelled IdC and
\* has both client_id and client_secret.
C13_DeviceCodeCredentialIsIdc ==
    /\ \A i \in 1 .. Len(saved) :
          flows[saved[i].flow].kind = "builder-id" =>
             /\ saved[i].credentials.authMethod = "IdC"
             /\ saved[i].credentials.client_id /\ saved[i].credentials.client_secret
    /\ \A p \in FlowIds :
          (flows[p].kind = "builder-id" /\ flows[p].account \in stored) =>
             /\ acct[flows[p].account].auth_method = "IdC"
             /\ acct[flows[p].account].client_id
             /\ acct[flows[p].account].client_secret

\* Connection c brought a GET for the callback path that has been handled
\* (answered, or taken to the token exchange).
IsCallback(c) ==
    /\ conns[c].pc # "idle"
    /\ conns[c].req.method = "GET"
    /\ StartsWithCallback(conns[c].req.path)

\* C14: a flow's listener handles one callback only -- once a callback has
\* been answered (here: turned down with 400, which ends its handling at
\* once), no later connection to the same server is handled as a callback.
C14_OneCallbackPerFlow ==
    \A c, d \in ConnIds :
       (/\ c < d
        /\ IsCallback(c)
        /\ conns[c].pc = "done"
        /\ conns[c].status = 400
        /\ conns[d].srv = conns[c].srv) => ~IsCallback(d)

\* C15: a lookup in the bearer cache returns an auth manager only from an
\* entry used at most cache_ttl_seconds (300) before, and sets that entry's
\* last_used to now; an entry idle for longer is not returned and the lookup
\* removes it; a lookup made at least cache_cleanup_interval (600) after the
\* last sweep sweeps, after which no entry idle for more than 300 s is left.
C15_LookupHonoursTtl ==
    [][(nbreq' = nbreq + 1 /\ br'[nbreq'].token # <<>>) =>
         LET r == nbreq'
             k == HashToken(br'[r].token)
             e == auth_manager_cache[k]
             e2 == auth_manager_cache'[k]
             stale == e.cached /\ now - e.last_used > cache_ttl_seconds
         IN /\ br'[r].path = "cached" =>
                 /\ e.cached /\ ~stale
                 /\ e2 = [e EXCEPT !.last_used = now]
            /\ stale => /\ br'[r].path # "cached"
                        /\ e2.cached => e2.by = r
            /\ now - last_cache_cleanup >= cache_cleanup_interval =>
                 /\ last_cache_cleanup' = now
                 /\ \A j \in Keys :
                      auth_manager_cache'[j].cached =>
                        now - auth_manager_cache'[j].last_used <= cache_ttl_seconds
      ]_vars

\* The auth manager the first request created was idle for too long: the
\* second request, with the same token, did not get it and the entry is gone.
C15_Witness ==
    /\ nbreq = 2
    /\ br[1].fn = "get" /\ br[1].path = "created" /\ br[1].ok
    /\ br[2].token = br[1].token
    /\ br[2].fn = "verify" /\ br[2].path = "first" /\ br[2].pc = "await"
    /\ ~auth_manager_cache[HashToken(br[2].token)].cached

\* C16 as stated: a credential whose first-sight validation failed is never
\* in the cache afterwards.
C16_FailedNeverCached ==
    \A r \in BearerReqs :
      (br[r].pc = "done" /\ br[r].path = "first" /\ ~br[r].ok) =>
        ~ /\ auth_manager_cache[HashToken(br[r].token)].cached
          /\ auth_manager_cache[HashToken(br[r].token)].refresh_token = br[r].token

\* How a request of the bearer mode that was turned down ended.
Rejected(r) == br[r].pc = "done" /\ ~br[r].ok

\* C16: in per-request bearer mode a request without a usable bearer header,
\* one whose first-sight validation failed and one whose revalidation of a
\* cached auth manager failed all end with 401 authentication_error; the step
\* in which a first-sight validation fails leaves the cache as it was, and no
\* entry is ever one made by such a request; the step in which a revalidation
\* fails leaves no entry under that token's key.
C16_AuthenticationErrors ==
    /\ [](\A r \in BearerReqs :
            /\ (br[r].pc # "idle" /\ br[r].token = <<>>) =>
                 Rejected(r) /\ br[r].path = "header"
            /\ Rejected(r) =>
                 /\ br[r].status = 401 /\ br[r].type = "authentication_error"
                 /\ \A k \in Keys :
                      ~(auth_manager_cache[k].cached /\ auth_manager_cache[k].by = r))
    /\ [][\A r \in BearerReqs :
            (br[r].pc = "await" /\ Rejected(r)') =>
              IF br[r].path = "first"
              THEN auth_manager_cache' = auth_manager_cache
              ELSE ~auth_manager_cache'[HashToken(br[r].token)].cached
         ]_vars

\* One request had no usable header, the other a token seen for the first
\* time whose validation failed; both got 401 and nothing is cached.
C16_Witness ==
    /\ br[1].path = "header" /\ br[1].status = 401
    /\ br[2].fn = "verify" /\ br[2].path = "first" /\ Rejected(2)
    /\ br[2].status = 401 /\ br[2].type = "authentication_error"
    /\ \A k \in Keys : ~auth_manager_cache[k].cached

\* C17: a streaming request whose upstream stays silent for
\* first_token_timeout is retried, up to first_token_max_retries attempts in
\* all: when the stream ended on the first-token timeout, exactly
\* first_token_max_retries upstream connections were opened, each was closed
\* and the downstream got an error; never more attempts than the budget; and
\* once a chunk was delivered every attempt but the delivering one is closed.
C17_WatchdogRetries ==
    \A s \in StreamIds :
      LET st == streams[s]
      IN /\ st.opened <= first_token_max_retries
         /\ (st.pc = "done" /\ st.error = "FirstTokenTimeoutError") =>
              /\ st.opened = first_token_max_retries
              /\ st.closed = st.opened
              /\ st.done_marker
         /\ st.sent >= 1 => st.closed >= st.opened - 1

\* The data of the events of a sequence.
DataOf(evs) == [i \in 1 .. Len(evs) |-> evs[i].data]

\* A sequence with each run of equal elements collapsed to one.
RECURSIVE Collapse(_)
Collapse(seq) ==
    IF Len(seq) <= 1
    THEN seq
    ELSE LET front == Collapse(SubSeq(seq, 1, Len(seq) - 1))
         IN IF seq[Len(seq)] = seq[Len(seq) - 1]
            THEN front
            ELSE Append(front, seq[Len(seq)])

EmittedContent == DataOf(SelectSeq(emitted, LAMBDA e : e.type = "content"))

\* Where the call opened by the tool_start at i is finalised: at i itself
\* when the event carries stop, else at the next tool_start or tool_stop with
\* stop; 0 when the events so far do not finalise it.
Closes(i, k) ==
    \/ fed[k].type = "tool_start"
    \/ fed[k].type = "tool_stop" /\ fed[k].flag

ClosedAt(i) ==
    IF fed[i].flag
    THEN i
    ELSE IF \E k \in (i + 1) .. Len(fed) : Closes(i, k)
    THEN CHOOSE k \in (i + 1) .. Len(fed) :
           Closes(i, k) /\ \A m \in (i + 1) .. (k - 1) : ~Closes(i, m)
    ELSE 0

\* The inputs the call opened at i has gathered: its own and those of the
\* tool_input events up to its finalisation.
RECURSIVE InputsBetween(_, _)
InputsBetween(i, k) ==
    IF k <= i
    THEN <<>>
    ELSE InputsBetween(i, k - 1)
           \o (IF fed[k].type = "tool_input" THEN fed[k].input ELSE <<>>)

ArgumentsOf(i) ==
    fed[i].input
      \o InputsBetween(i, IF ClosedAt(i) = 0 THEN Len(fed)
                          ELSE IF ClosedAt(i) = i THEN i ELSE ClosedAt(i) - 1)

StartsFed == {i \in 1 .. Len(fed) : fed[i].type = "tool_start"}
Finalised == {i \in StartsFed : ClosedAt(i) # 0 \/ returned.called}

\* The k-th smallest element of a set of numbers.
RECURSIVE Nth(_, _)
Nth(S, k) ==
    LET least == CHOOSE x \in S : \A y \in S : x <= y
    IN IF k = 1 THEN least ELSE Nth(S \ {least}, k - 1)

\* C18 as stated: after a tool_start the parser is accumulating the call
\* that event opened.
C18_StartBeginsAccumulating ==
    (fed # <<>> /\ fed[Len(fed)].type = "tool_start" /\ ~returned.called) =>
      /\ current_tool_call # <<>>
      /\ current_tool_call[1].id = Len(fed)

\* C18: for every sequence of events the finalised calls are, in order, one
\* per tool_start that was followed by a tool_start or a tool_stop with
\* stop=true, that itself carried stop=true or (after get_tool_calls) was
\* still being accumulated at the end, each with the name of its tool_start
\* and its input followed by the inputs of the tool_input events received
\* while it was accumulated; the call being accumulated is that of the last
\* tool_start if nothing finalised it; tool_input and tool_stop events
\* received in the initial state change nothing.
C18_ToolCallAssembly ==
    /\ Len(tool_calls) = Cardinality(Finalised)
    /\ \A k \in 1 .. Len(tool_calls) :
         LET i == Nth(Finalised, k)
         IN tool_calls[k] = [id |-> i, name |-> fed[i].name,
                             arguments |-> Normalised(ArgumentsOf(i))]
    /\ current_tool_call =
         IF StartsFed \ Finalised = {}
         THEN <<>>
         ELSE LET i == CHOOSE x \in StartsFed \ Finalised : TRUE
              IN <<[id |-> i, name |-> fed[i].name, arguments |-> ArgumentsOf(i)]>>
    /\ Cardinality(StartsFed \ Finalised) <= 1

\* A call that gathered an input was finalised by the next tool_start, whose
\* own call get_tool_calls finalised.
C18_Witness ==
    /\ returned.called
    /\ Len(fed) = 3
    /\ fed[1].type = "tool_start" /\ ~fed[1].flag
    /\ fed[2].type = "tool_input" /\ fed[2].input = <<"1">>
    /\ fed[3].type = "tool_start" /\ ~fed[3].flag
    /\ Len(tool_calls) = 2
    /\ tool_calls[1].arguments = fed[1].input \o <<"1">>

\* C19 as stated: the content events emitted are the payloads of all the
\* content events received, each run of equal payloads collapsed to one.
C19_AllContentCollapsed ==
    EmittedContent =
      Collapse(DataOf(SelectSeq(fed, LAMBDA e : e.type = "content")))

\* C19: the content events emitted are the payloads of the content events
\* received that carry no followupPrompt, in order, each run of consecutive
\* equal payloads collapsed to one; so a payload equal to the one before it is
\* emitted once and a payload that differs from the one before it is emitted.
C19_ContentCollapsed ==
    EmittedContent =
      Collapse(DataOf(SelectSeq(fed, LAMBDA e : e.type = "content" /\ ~e.flag)))

\* Two equal payloads then a different one: two text deltas.
C19_Witness ==
    /\ Len(fed) = 3
    /\ \A i \in 1 .. 3 : fed[i].type = "content" /\ ~fed[i].flag
    /\ fed[1].data = fed[2].data /\ fed[3].data # fed[2].data
    /\ EmittedContent = <<fed[1].data, fed[3].data>>

\* What the scan has read before the character at index i >= pos, starting
\* outside strings at pos: "out" of every string literal, "in" one, or "esc",
\* in one right after a backslash that makes the character at i literal.
RECURSIVE ModeBefore(_, _, _)
ModeBefore(str, pos, i) ==
    IF i = pos
    THEN "out"
    ELSE LET before == ModeBefore(str, pos, i - 1)
             ch == str[i]
         IN CASE before = "esc" -> "in"
              [] before = "in" /\ ch = "\\" -> "esc"
              [] before = "in" /\ ch = "\"" -> "out"
              [] before = "out" /\ ch = "\"" -> "in"
              [] OTHER -> before

\* The braces that count among the characters at pos .. i: the openings less
\* the closings outside string literals.
Depth(str, pos, i) ==
    Cardinality({j \in pos .. i : ModeBefore(str, pos, j) = "out" /\ str[j + 1] = "{"})
      - Cardinality({j \in pos .. i : ModeBefore(str, pos, j) = "out" /\ str[j + 1] = "}"})

\* The index of the brace that closes the one at pos, -1 if there is none.
ClosingBraces(str, pos) ==
    {i \in pos .. (Len(str) - 1) :
       /\ ModeBefore(str, pos, i) = "out"
       /\ str[i + 1] = "}"
       /\ Depth(str, pos, i) = 0}

MatchingBrace(str, pos) ==
    IF ClosingBraces(str, pos) = {}
    THEN 0 - 1
    ELSE CHOOSE i \in ClosingBraces(str, pos) : \A k \in ClosingBraces(str, pos) : i <= k

\* {"a": "{}"} with "a" for the colon and the blank.
ExampleText == <<"{", "\"", "a", "\"", "a", "a", "\"", "{", "}", "\"", "}">>

KeptByPair(tcs) ==
    {i \in 1 .. Len(tcs) :
       ~\E k \in 1 .. (i - 1) :
          tcs[k].name = tcs[i].name /\ tcs[k].arguments = tcs[i].arguments}

\* C21: the list get_tool_calls returns is the list of finalised calls
\* without those that an earlier call equals in both function name and
\* arguments string: two calls are collapsed if and only if they agree in
\* both, the first is kept, and the kept calls are in their original order.
C21_DedupByNameAndArguments ==
    returned.called =>
      /\ Len(returned.calls) = Cardinality(KeptByPair(tool_calls))
      /\ \A k \in 1 .. Len(returned.calls) :
           returned.calls[k] = tool_calls[Nth(KeptByPair(tool_calls), k)]

\* C22: the request_count of every record never decreases, whatever
\* operations of the pool and the store run (usage update, rename, toggle,
\* refresh write-back, add, load_accounts), also in runs where a write of
\* the file failed and was swallowed.
C22_RequestCountMonotone ==
    [][\A id \in DOMAIN accounts \cap DOMAIN accounts' :
         accounts'[id] >= accounts[id]]_vars

UsageAccounted ==
    /\ \A id \in stored :
         request_count[id] + usage_tasks[id] + dropped[id] = returns[id]
    /\ backend = "file" => \A id \in AllIds : dropped[id] = 0
    /\ ( /\ ncalls = 5
         /\ stored = InitialIds
         /\ pending = {}
         /\ \A id \in AllIds : usage_tasks[id] = 0 /\ dropped[id] = 0 )
       => request_count[10] = 2 /\ request_count[11] = 2 /\ request_count[12] = 1

\* request_count and last_used_at change together, by one usage update.
UsageStep ==
    \A id \in AllIds :
      /\ request_count'[id] # request_count[id] =>
           /\ request_count'[id] = request_count[id] + 1
           /\ last_used_at'[id] = now
           /\ usage_tasks'[id] = usage_tasks[id] - 1
      /\ last_used_at'[id] # last_used_at[id] =>
           request_count'[id] = request_count[id] + 1

C24_EitherCredentialSuffices ==
    \A t \in Tasks :
        ( /\ backend = "file"
          /\ rt[t].pc \in {"http", "done"}
          /\ rt[t].found
          /\ rt[t].seen.auth_method = "social"
          /\ rt[t].seen.refresh_token # 0 ) =>
            LET a == rt[t].seen
            IN IF a.client_id \/ a.client_secret
               THEN rt[t].sent = <<"oidc">>
               ELSE rt[t].sent = <<"kiro">>

\* C24 (amended): in the file backend the refresh of a social record that
\* holds a refresh token goes to the SSO-OIDC endpoint when both client_id
\* and client_secret are set and to the Kiro auth service otherwise, also
\* when one of the two is set; in the db backend it raises AttributeError
\* and sends nothing.
C24_SocialDispatch ==
    \A t \in Tasks :
        ( /\ rt[t].pc \in {"http", "done"}
          /\ rt[t].found
          /\ rt[t].seen.auth_method = "social"
          /\ rt[t].seen.refresh_token # 0 ) =>
            LET a == rt[t].seen
            IN IF backend = "db"
               THEN rt[t].sent = <<>> /\ rt[t].result = "AttributeError"
               ELSE IF a.client_id /\ a.client_secret
               THEN rt[t].sent = <<"oidc">>
               ELSE rt[t].sent = <<"kiro">>

\* A social record with client_id and no client_secret has been refreshed
\* through the Kiro auth service.
C24_Witness ==
    /\ backend = "file"
    /\ rt["m1"].pc = "done"
    /\ rt["m1"].found
    /\ rt["m1"].seen.auth_method = "social"
    /\ rt["m1"].seen.client_id /\ ~rt["m1"].seen.client_secret
    /\ rt["m1"].sent = <<"kiro">>
    /\ rt["m1"].result = Success

\* C26: a refresh whose response carries no refreshToken leaves the record's
\* refresh_token, in the store and in the cached credential, at the value it
\* had just before the result was written: a write of a refresh result
\* either keeps refresh_token or sets the one the response brought, and
\* never brings an older one back, also when another refresh of the record
\* rotated it meanwhile.
C26_RefreshTokenKept ==
    [][\A id \in stored :
         Len(hist'[id]) > Len(hist[id]) =>
           /\ acct'[id].refresh_token = acct[id].refresh_token
                \/ ( /\ acct'[id].refresh_token = acct'[id].access_token
                     /\ acct'[id].refresh_token > acct[id].refresh_token )
           /\ (id \in auth_managers /\ id \in auth_managers') =>
                /\ cache'[id].refresh_token = acct'[id].refresh_token
                /\ cache'[id].refresh_token >= cache[id].refresh_token]_vars

\* Two refreshes of record 10 were sent with the same refresh token; the
\* first answer rotated it, the second brought none and the rotated one
\* is still there.
C26_Witness ==
    /\ rt["m1"].pc = "done" /\ rt["m1"].id = 10 /\ rt["m1"].result = Success
    /\ rt["m2"].pc = "done" /\ rt["m2"].id = 10 /\ rt["m2"].result = Success
    /\ rt["m1"].seen.refresh_token = 1
    /\ rt["m2"].seen.refresh_token = 1
    /\ 10 \in stored
    /\ acct[10].refresh_token = 2
    /\ acct[10].access_token = 3
    /\ 10 \in auth_managers
    /\ cache[10].refresh_token = 2

\* A refresh_account_token call ends in this step without success.
RefreshFails(t) ==
    /\ rt[t].pc # "done"
    /\ rt'[t].pc = "done"
    /\ rt'[t].found
    /\ rt'[t].result # Success

\* C27: a refresh that fails (no refresh token, no client credentials, HTTP
\* 401 or another error status, a transport error, a 200 without
\* accessToken) returns a failure and leaves the record as it was: its
\* tokens, expiry and profile ARN in the store and in the cached
\* credential, and the record neither deleted nor deactivated.
C27_FailedRefreshLeavesRecord ==
    [][\A t \in Manual :
         RefreshFails(t) =>
           /\ rt'[t].result # "AttributeError"
           /\ acct' = acct
           /\ cache' = cache
           /\ stored' = stored
           /\ active' = active]_vars

\* The cause a failure message names: the messages of the database
\* backend's handlers for httpx.HTTPStatusError (accounts.py:480-485), the
\* message for a body without accessToken, and the catch-all text of
\* "except Exception", which names no cause of its own.
FailureCause(result) ==
    CASE result = "Refresh token expired. Please re-authenticate." ->
           "refresh_token_expired"
      [] result \in {"HTTP error: 500"} -> "refresh_transport_error"
      [] result = "No access token in response" -> "malformed_response"
      [] OTHER -> "unclassified"

\* C28: the outcome of a failed refresh names its cause: an upstream 401 is
\* reported as refresh-token-expired, any other error status as a transport
\* error with the status code, a 200 without accessToken as a malformed
\* response.
C28_FailureCauseDistinguished ==
    [][\A t \in Manual : \A resp \in Responses :
         HttpReply(t, resp) =>
           /\ resp.status = 401 =>
                FailureCause(rt'[t].result) = "refresh_token_expired"
           /\ resp.status = 500 =>
                FailureCause(rt'[t].result) = "refresh_transport_error"
           /\ (resp.status = 200 /\ ~resp.access) =>
                FailureCause(rt'[t].result) = "malformed_response"]_vars

\* The part of C28 the code keeps: a 200 without accessToken is reported as
\* such, and an error status or a failed transport is reported as a failure.
MalformedResponseReported ==
    [][\A t \in Manual : \A resp \in Responses :
         HttpReply(t, resp) =>
           /\ (resp.status = 200 /\ ~resp.access) =>
                FailureCause(rt'[t].result) = "malformed_response"
           /\ resp.status # 200 => rt'[t].result # Success]_vars

\* The get_access_token calls in a given state.
GettersIn(kind) == {c \in Getters : gat[c].kind = kind}

\* Refresh requests that came back with a token.
RefreshesDone ==
    refresh_call_count - Cardinality(GettersIn("refreshing"))
                       - Cardinality(GettersIn("raised"))

\* C25: concurrent get_access_token calls on one credential are serialized
\* by its lock: at most one refresh request is in flight, once one has
\* brought a token no further one is made, every caller that returns
\* returns the credential's token, which is the refreshed one whenever the
\* token was missing or expiring, and with a valid token nobody refreshes.
C25_OneRefreshUnderLock ==
    /\ Cardinality(GettersIn("refreshing")) <= 1
    /\ RefreshesDone \in {0, 1}
    /\ RefreshesDone = 1 => ~NeedsRefresh(am) /\ am.access_token = ValidKiroToken
    /\ \A c \in GettersIn("returned") :
         /\ gat[c].token = am.access_token
         /\ ~NeedsRefresh(am)
         /\ IF RefreshesDone = 1
            THEN gat[c].token = ValidKiroToken
            ELSE gat[c].token = OldToken /\ refresh_call_count = 0

\* All callers asked while the token was missing or expiring, one request
\* was made, and each of them holds the refreshed token.
C25_Witness ==
    /\ \A c \in Getters : gat[c] = GotToken(ValidKiroToken)
    /\ refresh_call_count = 1
    /\ am.lock = 0

\* Callers wait for the lock while the one that holds it refreshes.
C25_QueuedBehindRefresh ==
    /\ Cardinality(GettersIn("waiting")) = MaxGetters - 1
    /\ Cardinality(GettersIn("refreshing")) = 1
    /\ refresh_call_count = 1

\* The delay table of the claims, for a given threshold.
DelayTable(ttl, interval, threshold) ==
    IF ~ttl.known
    THEN interval
    ELSE IF ttl.seconds <= 0
    THEN 0
    ELSE IF ttl.seconds <= threshold
    THEN 60
    ELSE IF ttl.seconds - threshold - 30 < 60
    THEN 60
    ELSE IF ttl.seconds - threshold - 30 > 300
    THEN 300
    ELSE ttl.seconds - threshold - 30

\* C29 as stated: the table with REFRESH_THRESHOLD = 600 s.
C29_DelayWithThreshold600 ==
    next_delay.called =>
      next_delay = Returned(DelayTable(seconds_until_expiry, refresh_interval, 600))

\* C29: the scheduler's next-check delay is, for every ttl: the fallback
\* interval when ttl is unknown; 0 when ttl <= 0; 60 s when 0 < ttl <= 300,
\* the scheduler's threshold; otherwise ttl - 300 - 30 clamped into
\* [60 s, 300 s]; so for a known positive ttl it lies in [60 s, 300 s].
C29_NextRefreshDelay ==
    next_delay.called =>
      /\ next_delay = Returned(DelayTable(seconds_until_expiry, refresh_interval, 300))
      /\ (seconds_until_expiry.known /\ seconds_until_expiry.seconds > 0) =>
           /\ next_delay.value >= MIN_REFRESH_INTERVAL
           /\ next_delay.value <= MAX_CHECK_INTERVAL

\* A token with ten minutes left is next checked in 270 s, not in 60 s.
C29_Witness ==
    /\ seconds_until_expiry = Ttl(600)
    /\ next_delay = Returned(270)

\* A loop task goes on to its next state only the way the loop is written:
\* its first sweep when it starts to run, a later sweep out of a sleep that
\* lasted REFRESH_INTERVAL.
LoopStep ==
    \A t \in LoopTasks :
      /\ (loops'[t].pc = "first sweep" /\ loops[t].pc # "first sweep") =>
           loops[t].pc = "created"
      /\ (loops'[t].pc = "sweep" /\ loops[t].pc # "sweep") =>
           /\ loops[t].pc = "sleep"
           /\ loops[t].elapsed >= REFRESH_INTERVAL
      /\ (loops'[t].pc = "sleep" /\ loops[t].pc # "sleep") =>
           /\ loops[t].pc \in {"first sweep", "sweep"}
           /\ loops'[t].elapsed = 0

\* C30: the pool's refresh loop sweeps once before its first sleep, then
\* once after every sleep of REFRESH_INTERVAL; no end of a sweep, a failed
\* result or an exception, ends the task, only stop_auto_refresh does; and
\* until stop_auto_refresh is called every sleep is followed by a sweep.
C30_RefreshLoopKeepsSweeping ==
    /\ [](\A t \in LoopTasks : loops[t].pc = "sleep" => loops[t].sweeps >= 1)
    /\ [](\A t \in LoopTasks : loops[t].pc = "done" => loops[t].cancel)
    /\ [][LoopStep]_vars
    /\ \A t \in LoopTasks :
         (loops[t].pc = "sleep" /\ ~loops[t].cancel)
           ~> (loops[t].pc = "sweep" \/ loops[t].cancel)

\* A sweep raised, the loop slept, and sweeps again.
C30_Witness ==
    \E t \in LoopTasks :
      /\ loops[t].pc = "sweep"
      /\ loops[t].last = "exception"
      /\ loops[t].sweeps >= 2
      /\ ~loops[t].cancel
      /\ refresh_task = t

\* How a streaming response that was begun has ended.
EndedOnError(st) == st.pc = "done" /\ st.status = 200 /\ st.error # ""

\* C31: a streaming response that ends on an error sent "data: [DONE]" as
\* its last frame; however it ends (completion, error, client disconnect,
\* cancellation) its upstream client is closed, once; a client disconnect
\* is recorded as such and not as an error; and nothing is sent once the
\* response has ended.
C31_StreamEnds ==
    /\ [](\A s \in StreamIds :
           LET st == streams[s]
           IN /\ EndedOnError(st) => st.done_marker
              /\ st.done_marker => EndedOnError(st)
              /\ st.pc = "done" => st.closed = st.opened
              /\ st.pc # "done" => st.closed = 0
              /\ st.client_disconnected => st.pc = "done" /\ st.error = "")
    /\ [][\A s \in StreamIds : streams[s].pc = "done" => streams'[s] = streams[s]]_vars

\* A stream sent chunks and then broke on a read timeout.
C31_Witness ==
    \E s \in StreamIds :
      /\ streams[s].pc = "done"
      /\ streams[s].sent >= 1
      /\ streams[s].error = "ReadTimeout"
      /\ streams[s].done_marker
      /\ streams[s].closed = 1

\* A client went away from a stream that had sent chunks.
C31_Disconnected ==
    \E s \in StreamIds :
      /\ streams[s].client_disconnected
      /\ streams[s].sent >= 1
      /\ streams[s].closed = 1

\* C32: a record written to the file and read back is equal in every
\* field, the timestamps with their microsecond and their UTC offset
\* included, and so is next_id.
C32_RoundTrip ==
    read_back.called =>
      /\ read_back.manager.account = to_save.account
      /\ read_back.manager.next_id = to_save.next_id

\* A record with an expiry of 05:30 east of UTC and a fraction of a second
\* came back with both.
C32_Witness ==
    /\ read_back.called
    /\ to_save.account.expires_at = <<DateTime(100, 250000, <<330>>)>>
    /\ read_back.manager.account.expires_at = <<DateTime(100, 250000, <<330>>)>>
    /\ ~to_save.account.is_active
    /\ to_save.account.auth_method = <<"">>

\* C33: whenever the rotation list is not empty the cursor is an index of
\* it, after any sequence of load, add, remove, activation toggle and next,
\* so that get_next_account never indexes outside the list.
C33_CursorInRange ==
    /\ Len(mem_account_ids) > 0 =>
         (0 <= mem_current_index /\ mem_current_index < Len(mem_account_ids))
    /\ mem_ret # IndexError

\* The same for the pool of either backend while no write of the file
\* fails.
CursorInRangeOfPool ==
    /\ Len(account_ids) > 0 => (0 <= current_index /\ current_index < Len(account_ids))
    /\ \A c \in Callers : caller_ret[c] # IndexError

\* The ids of the rotation list.
InRotation == {account_ids[i] : i \in DOMAIN account_ids}

\* C34: once every operation has finished, the rotation list holds the ids
\* of the active records and no others (a record that was inactive when the
\* pool loaded and is activated later is in it), and every id in it has a
\* cached auth manager.
C34_RotationIsActive ==
    pending = {} => (InRotation = active /\ InRotation \subseteq auth_managers)

\* The same for the file backend alone.
RotationIsActiveInFile ==
    backend = "file" => (InRotation = active /\ InRotation \subseteq auth_managers)

\* C35: no id is in the rotation list twice, however load, add, update and
\* remove interleave.
C35_NoDuplicateId ==
    \A i, j \in DOMAIN account_ids : i # j => account_ids[i] # account_ids[j]

\* The same for the file backend alone, whose operations are one locked
\* block each.
NoDuplicateIdInFile == backend = "file" => C35_NoDuplicateId

\* What get_next_account would hand out now.
NextUp == GetNextResult(account_ids, current_index, auth_managers)[1]

\* The in-memory part of a removal or of a deactivation of record id.
TakesOut(id) ==
    \/ RemoveAccountFile(id)
    \/ UpdateAccountFile(id, FALSE)
    \/ \E p \in pending :
         /\ p.id = id
         /\ p.op = "remove" \/ (p.op = "update" /\ ~p.is_active)
         /\ ApplyPending(p)

\* C36: taking a record other than the next one out of the rotation (by
\* removing or by deactivating it) leaves the record that get_next_account
\* hands out next as it was.
C36_NextUpKept ==
    [][\A id \in AllIds :
         (TakesOut(id) /\ Contains(account_ids, id) /\ NextUp # Got(id))
             => NextUp' = NextUp]_vars

\* Taking out a record behind the cursor's record keeps the next one, as
\* long as the cursor does not stand past the shortened list.
NextUpKeptBehindCursor ==
    [][\A id \in AllIds :
         (/\ TakesOut(id)
          /\ \E i \in DOMAIN account_ids : account_ids[i] = id /\ i > current_index + 1
          /\ current_index < Len(account_ids))
             => NextUp' = NextUp]_vars

\* C37: the ids of the file backend's records are below next_id, and
\* next_id never goes down, so that no id is handed out twice, also after a
\* removal and a reload.
C37_IdsNeverReused ==
    /\ [](\A id \in DOMAIN accounts : id < mem_next_id)
    /\ [][mem_next_id' >= mem_next_id]_vars

\* The wait of handler h in wait_for_auth ends and its "finally" runs.
WaitEnds(h) == WaitCallbackDone(h) \/ WaitTaskDone(h)

\* C38: the cleanup made when a wait_for_auth call ends touches the flow
\* that call waited on and no other: a flow started meanwhile keeps its
\* listener or polling task, and _current_auth keeps describing it.
C38_CleanupOwnFlowOnly ==
    [][\A h \in Handlers :
         WaitEnds(h) =>
            \A f \in FlowIds \ {hs[h].flow} :
               /\ flows'[f] = flows[f]
               /\ om.current_auth.flow = f => om'.current_auth = om.current_auth]_vars

\* The wait's own flow is cleaned up: when wait_for_auth ends while its flow
\* is still the current one, the flow's listener is closed or its task has
\* ended.
WaitCleansOwnFlow ==
    [][\A h \in Handlers :
         (WaitEnds(h) /\ om.current_auth.flow = hs[h].flow) =>
            /\ ~flows'[hs[h].flow].listening
            /\ ~Live(flows'[hs[h].flow])]_vars

\* The tasks of a manager that run or will run: created, not ended, and
\* cancel() not called on them.
LiveLoops == {t \in LoopTasks : loops[t].pc \notin {"absent", "done"} /\ ~loops[t].cancel}
LiveRefreshers ==
    {t \in RefresherTasks : refreshers[t].pc \notin {"absent", "done"}
                              /\ ~refreshers[t].cancel}

\* C39: a start call while a loop runs creates no task, so a manager (the
\* pool, the single-credential refresher) has at most one loop task that
\* has not been stopped, and it is the one the manager holds; and a task on
\* which stop was called begins no refresh request any more, whether it was
\* asleep or had a refresh in flight.
C39_StartStop ==
    /\ [](/\ LiveLoops = (IF refresh_task = 0 THEN {} ELSE {refresh_task})
          /\ LiveRefreshers = (IF refresher_task = 0 THEN {} ELSE {refresher_task})
          /\ running <=> refresher_task # 0)
    /\ [][/\ nloopstarts' # nloopstarts => refresh_task = 0
          /\ nrefresherstarts' # nrefresherstarts => ~running
          /\ \A t \in LoopTasks :
                /\ requested'[t] # requested[t] => ~loops[t].cancel
                /\ loops[t].cancel => loops'[t].pc \in {loops[t].pc, "done"}
          /\ \A t \in RefresherTasks :
                /\ refreshers'[t].requests # refreshers[t].requests
                      => ~refreshers[t].cancel
                /\ refreshers[t].cancel
                      => refreshers'[t].pc \in {refreshers[t].pc, "done"}]_vars

\* Stop was called on a pool loop with a refresh in flight, and the pool
\* has been started again.
C39_Witness ==
    /\ \E t \in LoopTasks :
         loops[t].cancel /\ loops[t].pc = "sweep" /\ requested[t] > 0
    /\ refresh_task # 0

\* The same of the refresher: stop found it asleep after a refresh.
C39_RefresherStoppedAsleep ==
    /\ \E t \in RefresherTasks :
         refreshers[t].cancel /\ refreshers[t].pc = "sleep" /\ refreshers[t].requests > 0
    /\ refresher_task # 0

\* Stop was called on a refresher whose refresh is in flight.
C39_StoppedInFlight ==
    \E t \in RefresherTasks : refreshers[t].cancel /\ refreshers[t].pc = "refresh"

\* What one feed call with the whole stream returns and leaves.
FedWhole == Feed(<<>>, NewParser, byte_stream)

\* get_tool_calls on a parser: the names and arguments of its calls.
ToolCallsOf(parser) == DeduplicateToolCalls(FinalizeToolCall(parser).tool_calls)

\* C40: however the bytes of a stream are split into chunks, once all of
\* them are fed the events the feed calls returned, in order, and the final
\* list of tool calls are those of one feed call with the whole stream.
C40_ChunkingInsensitive ==
    byte_pos = Len(byte_stream) =>
       /\ feed_events = FedWhole.events
       /\ ToolCallsOf(feed_parser) = ToolCallsOf(FedWhole.parser)

\* The same for the streams of ASCII bytes, where it holds at every point of
\* the stream; and the example stream gives one text delta, a{b}.
AsciiChunkingInsensitive ==
    byte_stream \in AsciiStreams =>
       LET upto == Feed(<<>>, NewParser, SubSeq(byte_stream, 1, byte_pos))
       IN /\ feed_events = upto.events
          /\ feed_parser = upto.parser
          /\ buffer = upto.buffer
          /\ (byte_stream = ExampleStream /\ byte_pos = Len(byte_stream)) =>
                feed_events = <<[type |-> "content", data |-> <<"a", "{", "b", "}">>]>>

====
